---- MODULE Spec2Model ----
(***************************************************************************)
(* A model of github.com/bdlm/db: the prepared-statement wrapper           *)
(* (statement.go) and the connection handle (db.go).  The database/sql     *)
(* runtime and the driver underneath are the environment: every call into  *)
(* them draws its outcome from the set of outcomes database/sql can        *)
(* produce in the current state.                                           *)
(*                                                                         *)
(* An error value is a sequence of strings, the chain of wrapped messages; *)
(* the absent (nil) error is the empty sequence.                           *)
(***************************************************************************)
EXTENDS Integers, Sequences, FiniteSets, TLC

VARIABLES
    \* ---- Statement (statement.go:13-46)
    binds,      \* statement.binds: sequence of <<key, value>> named args
    lastErr,    \* statement.lastErr
    result,     \* statement.result: "nil" or "res"
    rows,       \* statement.rows: "nil" or a cursor record
    txn,        \* state of statement.txn (*sql.Tx)
    stmt,       \* state of statement.stmt (*sql.Stmt)
    nrtxn,      \* statement.nrtxn: "nil", "running" or "ended"
    last,       \* what the last statement operation did and returned
    \* ---- Config and DB (config.go:17-72, db.go DB)
    cfg,        \* the *Config given to New
    handle,     \* "none", or "live" once New has returned a *DB
    conn,       \* db.Conn: "nil", "open" or "closed"
    opened,     \* connections opened by sql.Open and not closed since
    parentDone, \* the caller's context is cancelled
    childDone,  \* cfg.Ctx (after New, the derived context) is cancelled
    watcher,    \* the shutdown goroutine: "none", "waiting" or "done"
    closes,     \* DB.Close invocations, by caller
    txs,        \* transactions begun and not ended, by who holds them
    dlast,      \* what the last DB operation did and returned
    \* ---- Config as DSN() and ParseDSN() use it (config.go:17-72)
    config,     \* the *Config whose DSN() or ParseDSN() is called
    origin,     \* the *Config whose DSN() produced config.DSNString, if any
    edits,      \* assignments the holder made to config's fields between calls
    clast,      \* what the last Config operation did and returned
    \* ---- The telemetry callbacks (newrelic.go:39-68)
    segment,    \* the *nr.DatastoreSegment a callback is given
    query       \* the query text the driver runs

svars == <<binds, lastErr, result, rows, txn, stmt, nrtxn, last>>
dvars == <<cfg, handle, conn, opened, parentDone, childDone, watcher, closes, txs,
           dlast>>
cvars == <<config, origin, edits, clast, segment, query>>
nvars == <<segment, query>>
vars == <<binds, lastErr, result, rows, txn, stmt, nrtxn, last,
          cfg, handle, conn, opened, parentDone, childDone, watcher, closes, txs,
          dlast, config, origin, edits, clast, segment, query>>

----------------------------------------------------------------------------
\* Bounds of the model.
MaxBinds == 2
MaxArgs == 1
MaxCloses == 2
MaxConns == 3
MaxTx == 2
MaxEdits == 1
MaxStr == 3
MaxParams == 2
MaxPq == 5

BindKeys == {"a", "b"}
BindVals == {"v1"}
ArgVals == {"p"}

SeqsUpTo(S, n) == UNION {[1..k -> S] : k \in 0..n}
\* sql.Named(key, value): a <<name, value>> pair.
Named(key, value) == <<key, value>>
\* A positional argument of an execute/query call: a pair with no name.
Positional(value) == <<"", value>>
PosArgs == SeqsUpTo({Positional(v) : v \in ArgVals}, MaxArgs)

----------------------------------------------------------------------------
\* Errors.
Nil == <<>>
ErrDriver == <<"driver error">>
ErrBadConn == <<"driver: bad connection">>
ErrStmtClosed == <<"sql: statement is closed">>
ErrTxDone == <<"sql: transaction has already been committed or rolled back">>
ErrRowsClosed == <<"sql: Rows are closed">>
ErrScanNoNext == <<"sql: Scan called without calling Next">>
ErrConvert == <<"sql: Scan error on column">>
ErrNoCursor == <<"no cursor found">>

\* errors.Wrap(err, msg): msg in front of the chain of err.
Wrap(err, msg) == <<msg>> \o err
\* errors.WrapE(err, e): the chain of e in front of the chain of err.
WrapE(err, e) == e \o err

----------------------------------------------------------------------------
\* The cursor (*sql.Rows).  exists = FALSE is the nil pointer.
NoRows == [exists |-> FALSE, closed |-> FALSE, lasterr |-> Nil, onRow |-> FALSE]
NewCursor == [exists |-> TRUE, closed |-> FALSE, lasterr |-> Nil, onRow |-> FALSE]

\* The record an operation leaves in `last`.
\*   op      the operation
\*   ret     the error it returned (Nil when it returns none)
\*   ok      the boolean it returned (TRUE when it returns none)
\*   inner   the error of the underlying call it wraps or scans with
\*   handed  the argument list it handed to the prepared statement
\*   calls   the calls it made into database/sql, in order
\*   adv     what the cursor's Next did: "none" when it was not called
\*   steps   the cleanup calls of Close, each with the error it returned
Obs(op, ret, ok, inner, handed, calls, adv) ==
    [op |-> op, ret |-> ret, ok |-> ok, inner |-> inner, handed |-> handed,
     calls |-> calls, adv |-> adv, steps |-> <<>>]

\* ---- The configuration, where the statement and the handle leave it alone ----
\* A map[string]string: nil, or the function from its keys to their values.
NilMap == [isNil |-> TRUE, kv |-> <<>>]
MakeMap(kv) == [isNil |-> FALSE, kv |-> kv]
EmptyMap == MakeMap(<<>>)

\* &Config{}
BlankConfig ==
    [DriverType |-> "", DSNData |-> NilMap, DSNFn |-> FALSE, DSNParser |-> FALSE,
     DSNString |-> <<>>, Loc |-> "nil", Params |-> NilMap, TLS |-> "nil"]

\* The observation a Config operation leaves in `clast`.
\*   op     the operation
\*   ret    what it returned: DSN's string, ParseDSN's error
\*   inner  what the custom DSNFn or DSNParser returned to it, if called
\*   calls  the functions it called, in order
\*   arg    the string a callback was given, if it was given one
CObs(op, ret, inner, calls) ==
    [op |-> op, ret |-> ret, inner |-> inner, calls |-> calls, arg |-> <<>>]

\* The segment a telemetry callback is given: its fields, and which of them the
\* callback assigned.
BaseSegment ==
    [Operation |-> <<>>, Collection |-> <<>>, ParameterizedQuery |-> <<>>, Host |-> <<>>,
     PortPathOrID |-> <<>>, DatabaseName |-> <<>>, wrote |-> {}]

\* ---- database/sql, the environment of the statement ----
\* The transaction is done once Commit or Rollback reached it.
TxDone(t) == t # "open"
\* sql.Tx.Commit: ErrTxDone on a done transaction, else the driver's result.
TxCommitOutcomes(t) == IF TxDone(t) THEN {ErrTxDone} ELSE {Nil, ErrDriver, ErrBadConn}
TxAfterCommit(t, err) ==
    IF TxDone(t) THEN t ELSE IF err = Nil THEN "committed" ELSE "commitFailed"
\* sql.Tx.Rollback: ErrTxDone on a done transaction, else the driver's result.
TxRollbackOutcomes(t) == IF TxDone(t) THEN {ErrTxDone} ELSE {Nil, ErrDriver, ErrBadConn}
TxAfterRollback(t, err) ==
    IF TxDone(t) THEN t ELSE IF err = Nil THEN "rolledback" ELSE "rollbackFailed"
\* A transaction that ends closes the statements prepared in it, unless the
\* driver reported a bad connection.
StmtAfterTxEnd(s, t, err) == IF TxDone(t) \/ err = ErrBadConn THEN s ELSE "closed"
\* sql.Stmt.ExecContext / QueryContext / QueryRowContext.
StmtRunOutcomes(s, t) ==
    IF s = "closed" THEN {ErrStmtClosed}
    ELSE IF TxDone(t) THEN {ErrTxDone}
    ELSE {Nil, ErrDriver}
\* sql.Stmt.Close: closing a closed statement is a no-op.
StmtCloseOutcomes(s) == IF s = "closed" THEN {Nil} ELSE {Nil, ErrDriver}
\* sql.Rows.Close: closing a closed cursor is a no-op.
RowsCloseOutcomes(r) == IF r.closed THEN {Nil} ELSE {Nil, ErrDriver}

\* sql.Rows.Next: "row" advances to a row; "eof" and "err" close the cursor,
\* "err" leaving the iteration error behind; a closed cursor stays as it is.
RowsNextOutcomes(r) == IF r.closed THEN {"closed"} ELSE {"row", "eof", "err"}
RowsAfterNext(r, o) ==
    CASE o = "row" -> [r EXCEPT !.onRow = TRUE]
      [] o = "eof" -> [r EXCEPT !.closed = TRUE, !.onRow = FALSE]
      [] o = "err" -> [r EXCEPT !.closed = TRUE, !.onRow = FALSE, !.lasterr = ErrDriver]
      [] OTHER -> r
\* sql.Rows.Err: the iteration error, if any.
RowsErr(r) == r.lasterr
\* sql.Rows.Scan: the iteration error, a closed cursor, no current row, or the
\* conversion of the columns into the destinations.
RowsScanOutcomes(r) ==
    IF r.lasterr # Nil THEN {r.lasterr}
    ELSE IF r.closed THEN {ErrRowsClosed}
    ELSE IF ~r.onRow THEN {ErrScanNoNext}
    ELSE {Nil, ErrConvert}
\* sql.Rows.Columns: fails on a closed cursor only.
RowsColumnsOutcomes(r) ==
    IF r.closed THEN {IF r.lasterr # Nil THEN r.lasterr ELSE ErrRowsClosed} ELSE {Nil}

----------------------------------------------------------------------------
\* ---- Statement operations ----

\* statement.go:49-52
Bind(key, value) ==
    /\ Len(binds) < MaxBinds
    /\ binds' = Append(binds, Named(key, value))
    /\ last' = Obs("Bind", Nil, TRUE, Nil, <<>>, <<>>, "none")
    /\ UNCHANGED <<lastErr, result, rows, txn, stmt, nrtxn>>
    /\ UNCHANGED <<dvars, cvars>>

\* The argument list of an execute/query call (statement.go:118-122).
CallArgs_ArgsFirst(b, args) == args \o b
CallArgs(b, args) == b \o args

\* What is left of the bind list after Exec/Query (statement.go:127, 250).
BindsAfterRun(b, err) == <<>>

\* What is left of the bind list after QueryRow (statement.go:264-271).
BindsAfterQueryRow(b) == b

\* statement.go:116-129 (Exec, statement.go:110-112, delegates to it)
ExecContext(args, err) ==
    /\ err \in StmtRunOutcomes(stmt, txn)
    /\ result' = IF err = Nil THEN "res" ELSE "nil"
    /\ lastErr' = IF err # Nil THEN err ELSE lastErr
    /\ binds' = BindsAfterRun(binds, err)
    /\ last' = Obs("Exec", err, err = Nil, err, CallArgs(binds, args),
                   <<"stmt.ExecContext">>, "none")
    /\ UNCHANGED <<rows, txn, stmt, nrtxn>>
    /\ UNCHANGED <<dvars, cvars>>

\* statement.go:239-252 (Query, statement.go:232-234, delegates to it)
QueryContext(args, err) ==
    /\ err \in StmtRunOutcomes(stmt, txn)
    /\ rows' = IF err = Nil THEN NewCursor ELSE NoRows
    /\ lastErr' = IF err # Nil THEN err ELSE lastErr
    /\ binds' = BindsAfterRun(binds, err)
    /\ last' = Obs("Query", err, err = Nil, err, CallArgs(binds, args),
                   <<"stmt.QueryContext">>, "none")
    /\ UNCHANGED <<result, txn, stmt, nrtxn>>
    /\ UNCHANGED <<dvars, cvars>>

\* statement.go:264-271 (QueryRow, statement.go:257-259, delegates to it).
\* The *sql.Row that is returned carries the query's error until it is scanned.
QueryRowContext(args, err) ==
    /\ err \in StmtRunOutcomes(stmt, txn)
    /\ binds' = BindsAfterQueryRow(binds)
    /\ last' = Obs("QueryRow", Nil, TRUE, err, CallArgs(binds, args),
                   <<"stmt.QueryRowContext">>, "none")
    /\ UNCHANGED <<lastErr, result, rows, txn, stmt, nrtxn>>
    /\ UNCHANGED <<dvars, cvars>>

\* The value Commit returns, given what txn.Commit returned (statement.go:90-91).
CommitReturn_Inner(err) == err
CommitReturn(err) == Nil

\* statement.go:89-92
Commit(err) ==
    /\ err \in TxCommitOutcomes(txn)
    /\ txn' = TxAfterCommit(txn, err)
    /\ stmt' = StmtAfterTxEnd(stmt, txn, err)
    /\ last' = Obs("Commit", CommitReturn(err), TRUE, err, <<>>, <<"txn.Commit">>, "none")
    /\ UNCHANGED <<binds, lastErr, result, rows, nrtxn>>
    /\ UNCHANGED <<dvars, cvars>>

\* statement.go:279-285
Rollback(err) ==
    /\ err \in TxRollbackOutcomes(txn)
    /\ txn' = TxAfterRollback(txn, err)
    /\ stmt' = StmtAfterTxEnd(stmt, txn, err)
    /\ lastErr' = IF err # Nil THEN err ELSE lastErr
    /\ last' = Obs("Rollback", err, err = Nil, err, <<>>, <<"txn.Rollback">>, "none")
    /\ UNCHANGED <<binds, result, rows, nrtxn>>
    /\ UNCHANGED <<dvars, cvars>>

\* The failures Close collects, each wrapped (statement.go:57-71).
CloseErrList_NoRollback(hasRows, rowsErr, rbErr, stErr) ==
    (IF hasRows /\ rowsErr # Nil THEN <<Wrap(rowsErr, "error closing rows")>> ELSE <<>>)
    \o (IF stErr # Nil THEN <<Wrap(stErr, "error closing statement")>> ELSE <<>>)
CloseErrList(hasRows, rowsErr, rbErr, stErr) ==
    (IF hasRows /\ rowsErr # Nil THEN <<Wrap(rowsErr, "error closing rows")>> ELSE <<>>)
    \o (IF rbErr # Nil
        THEN <<Wrap(rbErr, "error rolling back transaction")>> ELSE <<>>)
    \o (IF stErr # Nil THEN <<Wrap(stErr, "error closing statement")>> ELSE <<>>)

\* The loop that chains the collected failures (statement.go:74-77).
RECURSIVE ChainFrom(_, _)
ChainFrom(err, rest) ==
    IF rest = <<>> THEN err ELSE ChainFrom(WrapE(err, Head(rest)), Tail(rest))
CloseCombined_First(errList) == Head(errList)
CloseCombined(errList) == ChainFrom(Head(errList), Tail(errList))
\* The cleanup calls Close makes, each with its outcome (statement.go:59-71).
CloseSteps(hasRows, rowsErr, rbErr, stErr) ==
    (IF hasRows THEN << <<"rows.Close", rowsErr>> >> ELSE <<>>)
    \o << <<"txn.Rollback", rbErr>>, <<"stmt.Close", stErr>> >>

Close_NoRollback(rowsErr, rbErr, stErr) ==
    /\ rowsErr \in (IF rows.exists THEN RowsCloseOutcomes(rows) ELSE {Nil})
    /\ rbErr \in TxRollbackOutcomes(txn)
    /\ stErr \in StmtCloseOutcomes(StmtAfterTxEnd(stmt, txn, rbErr))
    /\ LET errList == CloseErrList(rows.exists, rowsErr, rbErr, stErr)
           err == IF 0 < Len(errList) THEN CloseCombined(errList) ELSE stErr
       IN /\ rows' = IF rows.exists
                     THEN [rows EXCEPT !.closed = TRUE, !.onRow = FALSE] ELSE rows
          /\ txn' = txn
          /\ stmt' = "closed"
          /\ lastErr' = IF 0 < Len(errList) THEN err ELSE lastErr
          /\ nrtxn' = IF nrtxn # "nil" THEN "ended" ELSE nrtxn
          /\ last' = [Obs("Close", err, err = Nil, rbErr, <<>>,
                          (IF rows.exists THEN <<"rows.Close">> ELSE <<>>)
                          \o <<"txn.Rollback", "stmt.Close">>
                          \o (IF nrtxn # "nil" THEN <<"nrtxn.End">> ELSE <<>>),
                          "none")
                      EXCEPT !.steps = CloseSteps(rows.exists, rowsErr, rbErr, stErr)]
    /\ UNCHANGED <<binds, result>>
    /\ UNCHANGED <<dvars, cvars>>
\* statement.go:55-86
Close(rowsErr, rbErr, stErr) ==
    /\ rowsErr \in (IF rows.exists THEN RowsCloseOutcomes(rows) ELSE {Nil})
    /\ rbErr \in TxRollbackOutcomes(txn)
    /\ stErr \in StmtCloseOutcomes(StmtAfterTxEnd(stmt, txn, rbErr))
    /\ LET errList == CloseErrList(rows.exists, rowsErr, rbErr, stErr)
           err == IF 0 < Len(errList) THEN CloseCombined(errList) ELSE stErr
       IN /\ rows' = IF rows.exists
                     THEN [rows EXCEPT !.closed = TRUE, !.onRow = FALSE] ELSE rows
          /\ txn' = TxAfterRollback(txn, rbErr)
          /\ stmt' = "closed"
          /\ lastErr' = IF 0 < Len(errList) THEN err ELSE lastErr
          /\ nrtxn' = IF nrtxn # "nil" THEN "ended" ELSE nrtxn
          /\ last' = [Obs("Close", err, err = Nil, rbErr, <<>>,
                          (IF rows.exists THEN <<"rows.Close">> ELSE <<>>)
                          \o <<"txn.Rollback", "stmt.Close">>
                          \o (IF nrtxn # "nil" THEN <<"nrtxn.End">> ELSE <<>>),
                          "none")
                      EXCEPT !.steps = CloseSteps(rows.exists, rowsErr, rbErr, stErr)]
    /\ UNCHANGED <<binds, result>>
    /\ UNCHANGED <<dvars, cvars>>

\* The value Err returns (statement.go:98-105).
ErrValue(r) == IF ~r.exists THEN Nil ELSE RowsErr(r)

\* statement.go:97-106
Err ==
    /\ lastErr' = IF ErrValue(rows) # Nil THEN ErrValue(rows) ELSE lastErr
    /\ last' = Obs("Err", ErrValue(rows), ErrValue(rows) = Nil, Nil, <<>>,
                   IF rows.exists THEN <<"rows.Err">> ELSE <<>>, "none")
    /\ UNCHANGED <<binds, result, rows, txn, stmt, nrtxn>>
    /\ UNCHANGED <<dvars, cvars>>

\* The last error after a scan that returned err (statement.go:297-300, 220-223,
\* 160-163).
RecordScan_Dropped(prev, err) == prev
RecordScan_Assigned(prev, err) == err
RecordScan(prev, err) == IF err # Nil THEN err ELSE prev

\* statement.go:296-302.  With no cursor the call dereferences nil and panics.
Scan(err) ==
    /\ rows.exists
    /\ err \in RowsScanOutcomes(rows)
    /\ lastErr' = RecordScan(lastErr, err)
    /\ last' = Obs("Scan", err, err = Nil, err, <<>>, <<"rows.Scan">>, "none")
    /\ UNCHANGED <<binds, result, rows, txn, stmt, nrtxn>>
    /\ UNCHANGED <<dvars, cvars>>

\* The value MapScan returns (statement.go:174-193).
MapScanValue(r, colErr, scanErr) ==
    IF colErr # Nil THEN Wrap(colErr, "failed to list result columns")
    ELSE IF scanErr # Nil THEN Wrap(scanErr, "failed to scan result values")
    ELSE RowsErr(r)
MapScanCalls(colErr, scanErr) ==
    IF colErr # Nil THEN <<"rows.Columns">>
    ELSE IF scanErr # Nil THEN <<"rows.Columns", "rows.Scan">>
    ELSE <<"rows.Columns", "rows.Scan", "rows.Err">>

\* statement.go:173-194.  MapScan itself records nothing on the statement.
MapScan(colErr, scanErr) ==
    /\ rows.exists
    /\ colErr \in RowsColumnsOutcomes(rows)
    /\ scanErr \in (IF colErr = Nil THEN RowsScanOutcomes(rows) ELSE {Nil})
    /\ last' = Obs("MapScan", MapScanValue(rows, colErr, scanErr),
                   MapScanValue(rows, colErr, scanErr) = Nil, scanErr, <<>>,
                   MapScanCalls(colErr, scanErr), "none")
    /\ UNCHANGED <<binds, lastErr, result, rows, txn, stmt, nrtxn>>
    /\ UNCHANGED <<dvars, cvars>>

\* Scan and MapScan on a statement without a cursor: statement.rows is nil and
\* the call into it panics; nothing is recorded or returned.
ScanNoCursor(op) ==
    /\ ~rows.exists
    /\ last' = Obs(op, Nil, FALSE, Nil, <<>>, <<"panic">>, "none")
    /\ UNCHANGED <<binds, lastErr, result, rows, txn, stmt, nrtxn>>
    /\ UNCHANGED <<dvars, cvars>>

\* The boolean Next and MapNext return (statement.go:207-226, 147-166).
NextOk_ScanIgnored(hasCursor, adv, scanErr) == hasCursor /\ adv = "row"
NextOk(hasCursor, adv, scanErr) == hasCursor /\ adv = "row" /\ scanErr = Nil

\* statement.go:206-227
Next(adv, scanErr) ==
    /\ adv \in (IF rows.exists THEN RowsNextOutcomes(rows) ELSE {"none"})
    /\ scanErr \in (IF adv = "row" THEN RowsScanOutcomes(RowsAfterNext(rows, adv))
                     ELSE {Nil})
    /\ rows' = RowsAfterNext(rows, adv)
    /\ lastErr' = IF ~rows.exists THEN ErrNoCursor
                  ELSE IF adv # "row"
                       THEN (IF ErrValue(rows') # Nil THEN ErrValue(rows') ELSE lastErr)
                       ELSE RecordScan(lastErr, scanErr)
    /\ last' = Obs("Next", Nil, NextOk(rows.exists, adv, scanErr), scanErr, <<>>,
                   IF ~rows.exists THEN <<>>
                   ELSE IF adv # "row" THEN <<"rows.Next", "rows.Err">>
                   ELSE <<"rows.Next", "rows.Scan">>,
                   adv)
    /\ UNCHANGED <<binds, result, txn, stmt, nrtxn>>
    /\ UNCHANGED <<dvars, cvars>>

\* statement.go:146-167
MapNext(adv, colErr, scanErr) ==
    /\ adv \in (IF rows.exists THEN RowsNextOutcomes(rows) ELSE {"none"})
    /\ colErr \in (IF adv = "row" THEN RowsColumnsOutcomes(RowsAfterNext(rows, adv))
                    ELSE {Nil})
    /\ scanErr \in (IF adv = "row" /\ colErr = Nil
                     THEN RowsScanOutcomes(RowsAfterNext(rows, adv)) ELSE {Nil})
    /\ rows' = RowsAfterNext(rows, adv)
    /\ LET err == MapScanValue(rows', colErr, scanErr)
       IN /\ lastErr' = IF ~rows.exists THEN ErrNoCursor
                        ELSE IF adv # "row"
                             THEN (IF ErrValue(rows') # Nil THEN ErrValue(rows')
                                   ELSE lastErr)
                             ELSE RecordScan(lastErr, err)
          /\ last' = Obs("MapNext", Nil,
                         NextOk(rows.exists, adv, IF adv = "row" THEN err ELSE Nil),
                         IF adv = "row" THEN err ELSE Nil, <<>>,
                         IF ~rows.exists THEN <<>>
                         ELSE IF adv # "row" THEN <<"rows.Next", "rows.Err">>
                         ELSE <<"rows.Next">> \o MapScanCalls(colErr, scanErr),
                         adv)
    /\ UNCHANGED <<binds, result, txn, stmt, nrtxn>>
    /\ UNCHANGED <<dvars, cvars>>

----------------------------------------------------------------------------
\* The statement PrepareContext returns (db.go PrepareContext, the struct
\* literal): no binds, no error, no result, no cursor, an open transaction and
\* an open prepared statement; a telemetry transaction when an agent is set.
StmtInit ==
    /\ binds = <<>>
    /\ lastErr = Nil
    /\ result = "nil"
    /\ rows = NoRows
    /\ txn = "open"
    /\ stmt = "open"
    /\ nrtxn \in {"nil", "running"}
    /\ last = Obs("Prepare", Nil, TRUE, Nil, <<>>, <<>>, "none")
    \* the handle the statement came from, which stays as it is
    /\ cfg = [Connector |-> TRUE, Driver |-> TRUE, Ctx |-> TRUE,
              DatabaseName |-> <<"db">>, DriverName |-> <<"drv">>,
              NewRelic |-> nrtxn # "nil", Loc |-> TRUE, Params |-> TRUE,
              Cancel |-> TRUE]
    /\ handle = "live"
    /\ conn = "open"
    /\ opened = 1
    /\ parentDone = FALSE
    /\ childDone = FALSE
    /\ watcher = "waiting"
    /\ closes = [user |-> 0, watcher |-> 0]
    /\ txs = [owned |-> 1, adhoc |-> 0, orphan |-> 0]
    /\ dlast = [op |-> "PrepareContext", ret |-> Nil, ping |-> Nil, inner |-> Nil,
                stmt |-> TRUE,
                calls |-> <<"db.Ping", "db.BeginTx", "txn.PrepareContext">>]
    /\ config = BlankConfig
    /\ origin = BlankConfig
    /\ edits = 0
    /\ clast = CObs("none", <<>>, <<>>, <<>>)
    /\ segment = BaseSegment
    /\ query = <<>>

StmtNext ==
    \/ \E k \in BindKeys, v \in BindVals : Bind(k, v)
    \/ \E a \in PosArgs, e \in {Nil, ErrDriver, ErrStmtClosed, ErrTxDone} :
          ExecContext(a, e)
    \/ \E a \in PosArgs, e \in {Nil, ErrDriver, ErrStmtClosed, ErrTxDone} :
          QueryContext(a, e)
    \/ \E a \in PosArgs, e \in {Nil, ErrDriver, ErrStmtClosed, ErrTxDone} :
          QueryRowContext(a, e)
    \/ \E e \in {Nil, ErrDriver, ErrBadConn, ErrTxDone} : Commit(e)
    \/ \E e \in {Nil, ErrDriver, ErrBadConn, ErrTxDone} : Rollback(e)
    \/ \E r \in {Nil, ErrDriver}, b \in {Nil, ErrDriver, ErrBadConn, ErrTxDone},
          c \in {Nil, ErrDriver} : Close(r, b, c)
    \/ Err
    \/ \E e \in {Nil, ErrDriver, ErrRowsClosed, ErrScanNoNext, ErrConvert} : Scan(e)
    \/ \E c \in {Nil, ErrDriver, ErrRowsClosed},
          e \in {Nil, ErrDriver, ErrRowsClosed, ErrScanNoNext, ErrConvert} :
          MapScan(c, e)
    \/ \E op \in {"Scan", "MapScan"} : ScanNoCursor(op)
    \/ \E a \in {"none", "row", "eof", "err", "closed"}, e \in {Nil, ErrConvert} :
          Next(a, e)
    \/ \E a \in {"none", "row", "eof", "err", "closed"}, c \in {Nil},
          e \in {Nil, ErrConvert} : MapNext(a, c, e)

SpecStmt == StmtInit /\ [][StmtNext]_vars

----------------------------------------------------------------------------
\* ---- The connection handle (db.go) ----

ErrNoConn == <<"no database connection">>
ErrDBClosed == <<"sql: database is closed">>
ErrCanceled == <<"context canceled">>
ErrNeedConnector == <<"a database connector or driver is required (*cfg.Connector, *cfg.Driver)">>
ErrNeedCtx == <<"a context is required (*Config.Ctx)">>
ErrNeedDatabaseName == <<"a database name is required (*Config.DatabaseName)">>
ErrNeedDriverName == <<"a database driver name is required (*Config.DriverName)">>
ErrNoDriverName == <<"must provide a database driver name">>
\* Not an error value: the call did not return, the goroutine panicked on a nil
\* pointer (a method of a nil *sql.DB, or a call of a nil function value).
Panic == <<"panic: runtime error: invalid memory address or nil pointer dereference">>

\* A name is a sequence of parts; "" is the empty sequence and a + "-" + b is
\* the two sequences joined.
EmptyName == <<>>
Suffixed(name, suffix) == name \o suffix

\* The record a DB operation leaves in `dlast`.
\*   op     the operation
\*   ret    the error it returned
\*   ping   the error of its first Ping (Nil when it made none)
\*   inner  the error of the Connect, or of the call it passes through to
\*   stmt   whether it returned a handle, statement, transaction or cursor
\*   calls  the calls it made on the handle and into database/sql, in order
DObs(op, ret, ping, inner, stmtRet, calls) ==
    [op |-> op, ret |-> ret, ping |-> ping, inner |-> inner, stmt |-> stmtRet,
     calls |-> calls]

\* ---- database/sql, the environment of the handle ----
\* sql.Open: fails when no driver is registered under the name.
OpenOutcomes == {Nil, ErrDriver}
\* sql.DB.PingContext with the handle's context.
PingContextOutcomes(cn, done) ==
    IF done THEN {ErrCanceled}
    ELSE IF cn = "closed" THEN {ErrDBClosed}
    ELSE {Nil, ErrDriver}
\* sql.DB.BeginTx, and the pass-through calls on the connection; a nil *sql.DB
\* is dereferenced.
ConnCallOutcomes(cn) ==
    IF cn = "nil" THEN {Panic}
    ELSE IF cn = "closed" THEN {ErrDBClosed}
    ELSE {Nil, ErrDriver}
\* sql.DB.Close: closing a closed connection is a no-op; a nil *sql.DB is
\* dereferenced.
ConnCloseOutcomes(cn) ==
    IF cn = "nil" THEN {Panic}
    ELSE IF cn = "closed" THEN {Nil}
    ELSE {Nil, ErrDriver}
\* sql.Tx.PrepareContext / QueryContext within a transaction just begun.
TxCallOutcomes == {Nil, ErrDriver}

\* The first requirement New finds violated (db.go New, "Validate required
\* configuration parameters").
NewValidate_NamesFirst(c) ==
    IF c.DriverName = EmptyName THEN ErrNeedDriverName
    ELSE IF c.DatabaseName = EmptyName THEN ErrNeedDatabaseName
    ELSE IF ~c.Connector /\ ~c.Driver THEN ErrNeedConnector
    ELSE IF ~c.Ctx THEN ErrNeedCtx
    ELSE Nil
NewValidate(c) ==
    IF ~c.Connector /\ ~c.Driver THEN ErrNeedConnector
    ELSE IF ~c.Ctx THEN ErrNeedCtx
    ELSE IF c.DatabaseName = EmptyName THEN ErrNeedDatabaseName
    ELSE IF c.DriverName = EmptyName THEN ErrNeedDriverName
    ELSE Nil

\* The configuration as New leaves it once validation passed (db.go New, "Init
\* config values" to "Instrument the database driver").
NewDefaults(c) ==
    LET named == [c EXCEPT !.DatabaseName =
                      IF @ = EmptyName THEN <<"UndefinedDatabaseName">> ELSE @]
    IN [named EXCEPT !.Loc = TRUE,
                     !.Params = TRUE,
                     !.Ctx = TRUE,
                     !.Cancel = TRUE,
                     !.Driver = TRUE,
                     !.DriverName = IF c.NewRelic
                                    THEN Suffixed(@, named.DatabaseName) ELSE @]

\* db.go Ping: no connection, or the connection's own liveness check.
PingValue(cn, pingErr) == IF cn = "nil" THEN ErrNoConn ELSE pingErr
PingOutcomes(cn, done) ==
    IF cn = "nil" THEN {ErrNoConn} ELSE PingContextOutcomes(cn, done)

\* db.go Connect: the error it returns, and the connection it leaves.
ConnectValue(c, openErr, pingErr) ==
    IF c.DriverName = EmptyName THEN ErrNoDriverName
    ELSE IF openErr # Nil THEN Wrap(openErr, "unable to open connection")
    ELSE pingErr
ConnectOpens(c, openErr) == c.DriverName # EmptyName /\ openErr = Nil
ConnAfterConnect(c, cn, openErr) == IF ConnectOpens(c, openErr) THEN "open" ELSE cn
OpenedAfterConnect(c, n, openErr) == IF ConnectOpens(c, openErr) THEN n + 1 ELSE n
\* The outcomes the environment can give a Connect on configuration c.
ConnectPingOutcomes(c, openErr, done) ==
    IF ConnectOpens(c, openErr) THEN PingContextOutcomes("open", done) ELSE {Nil}

\* Whether New starts the shutdown goroutine (db.go New, "Start a shutdown
\* handler", reached only past the connect check).
WatcherAfterNew_Always(connErr) == "waiting"
WatcherAfterNew(connErr) == IF connErr = Nil THEN "waiting" ELSE "none"

\* db.go New
New(openErr, pingErr) ==
    /\ handle = "none"
    /\ ~cfg.Cancel
    /\ LET v == NewValidate(cfg)
           c1 == NewDefaults(cfg)
           done1 == parentDone
           connErr == ConnectValue(c1, openErr, pingErr)
       IN IF v # Nil
          THEN /\ openErr = Nil /\ pingErr = Nil
               /\ dlast' = DObs("New", v, Nil, Nil, FALSE, <<>>)
               /\ UNCHANGED <<cfg, handle, conn, opened, childDone, watcher>>
          ELSE /\ openErr \in OpenOutcomes
               /\ pingErr \in ConnectPingOutcomes(c1, openErr, done1)
               /\ opened < MaxConns
               /\ cfg' = c1
               /\ childDone' = done1
               /\ conn' = ConnAfterConnect(c1, conn, openErr)
               /\ opened' = OpenedAfterConnect(c1, opened, openErr)
               /\ handle' = IF connErr # Nil THEN "none" ELSE "live"
               /\ watcher' = WatcherAfterNew(connErr)
               /\ dlast' = DObs("New",
                                IF connErr # Nil THEN Wrap(connErr, "connect failed")
                                ELSE Nil,
                                Nil, connErr, connErr = Nil, <<"db.Connect">>)
    /\ UNCHANGED <<parentDone, closes, txs>>
    /\ UNCHANGED <<svars, cvars>>

\* What DB.Close does to the handle (db.go Close): the ping's result is
\* dropped, the derived context is cancelled, the connection is closed.
\* db.Cfg.Cancel() calls a nil function value when New never stored one, and
\* db.Conn.Close() dereferences db.Conn.
CloseValue(c, cn, closeErr) == IF ~c.Cancel \/ cn = "nil" THEN Panic ELSE closeErr
CloseCalls(c, cn) ==
    <<"db.Ping">>
    \o (IF ~c.Cancel THEN <<"panic">>
        ELSE IF cn = "nil" THEN <<"cfg.Cancel", "conn.Close", "panic">>
        ELSE <<"cfg.Cancel", "conn.Close">>)
CloseBody_PingChecked(by, pingErr, closeErr) ==
    /\ pingErr \in PingOutcomes(conn, childDone)
    /\ closeErr \in (IF cfg.Cancel THEN ConnCloseOutcomes(conn) ELSE {Panic})
    /\ closes' = [closes EXCEPT ![by] = @ + 1]
    /\ IF PingValue(conn, pingErr) # Nil
       THEN /\ UNCHANGED <<childDone, conn, opened>>
            /\ dlast' = DObs("Close", PingValue(conn, pingErr), PingValue(conn, pingErr),
                             Nil, FALSE, <<"db.Ping">>)
       ELSE /\ childDone' = (childDone \/ cfg.Cancel)
            /\ conn' = IF CloseValue(cfg, conn, closeErr) = Panic THEN conn ELSE "closed"
            /\ opened' = IF conn = "open" /\ conn' = "closed" THEN opened - 1 ELSE opened
            /\ dlast' = DObs("Close", CloseValue(cfg, conn, closeErr), Nil,
                             closeErr, FALSE, CloseCalls(cfg, conn))
CloseBody_NoCancel(by, pingErr, closeErr) ==
    /\ pingErr \in PingOutcomes(conn, childDone)
    /\ closeErr \in (IF cfg.Cancel THEN ConnCloseOutcomes(conn) ELSE {Panic})
    /\ childDone' = childDone
    /\ conn' = IF CloseValue(cfg, conn, closeErr) = Panic THEN conn ELSE "closed"
    /\ opened' = IF conn = "open" /\ conn' = "closed" THEN opened - 1 ELSE opened
    /\ closes' = [closes EXCEPT ![by] = @ + 1]
    /\ dlast' = DObs("Close", CloseValue(cfg, conn, closeErr), PingValue(conn, pingErr),
                     closeErr, FALSE, CloseCalls(cfg, conn))
CloseBody(by, pingErr, closeErr) ==
    /\ pingErr \in PingOutcomes(conn, childDone)
    /\ closeErr \in (IF cfg.Cancel THEN ConnCloseOutcomes(conn) ELSE {Panic})
    /\ childDone' = (childDone \/ cfg.Cancel)
    /\ conn' = IF CloseValue(cfg, conn, closeErr) = Panic THEN conn ELSE "closed"
    /\ opened' = IF conn = "open" /\ conn' = "closed" THEN opened - 1 ELSE opened
    /\ closes' = [closes EXCEPT ![by] = @ + 1]
    /\ dlast' = DObs("Close", CloseValue(cfg, conn, closeErr), PingValue(conn, pingErr),
                     closeErr, FALSE, CloseCalls(cfg, conn))

\* db.go Close, called by the holder of the handle.
DBClose(pingErr, closeErr) ==
    /\ handle = "live"
    /\ closes.user < MaxCloses
    /\ CloseBody("user", pingErr, closeErr)
    /\ UNCHANGED <<cfg, handle, parentDone, watcher, txs>>
    /\ UNCHANGED <<svars, cvars>>

\* The signal the shutdown goroutine waits for (db.go New, <-cfg.Ctx.Done()).
WatchedDone_Parent == parentDone
WatchedDone == childDone

\* db.go New, the shutdown goroutine: wait for the context, then Close.
Watcher(pingErr, closeErr) ==
    /\ watcher = "waiting"
    /\ WatchedDone
    /\ CloseBody("watcher", pingErr, closeErr)
    /\ watcher' = "done"
    /\ UNCHANGED <<cfg, handle, parentDone, txs>>
    /\ UNCHANGED <<svars, cvars>>

\* The caller cancels the context it gave in the configuration; cfg.Ctx is that
\* context or, after New, the one derived from it, which is cancelled with it.
ParentCancel ==
    /\ cfg.Ctx
    /\ ~parentDone
    /\ parentDone' = TRUE
    /\ childDone' = TRUE
    /\ UNCHANGED <<cfg, handle, conn, opened, watcher, closes, txs, dlast>>
    /\ UNCHANGED <<svars, cvars>>

\* The caller calls the cancellation function New stored in the configuration.
ChildCancel ==
    /\ cfg.Cancel
    /\ ~childDone
    /\ childDone' = TRUE
    /\ UNCHANGED <<cfg, handle, conn, opened, parentDone, watcher, closes, txs, dlast>>
    /\ UNCHANGED <<svars, cvars>>

\* db.go Ping
Ping(pingErr) ==
    /\ handle = "live"
    /\ pingErr \in PingOutcomes(conn, childDone)
    /\ dlast' = DObs("Ping", PingValue(conn, pingErr), PingValue(conn, pingErr), Nil,
                     FALSE, IF conn = "nil" THEN <<>> ELSE <<"conn.PingContext">>)
    /\ UNCHANGED <<cfg, handle, conn, opened, parentDone, childDone, watcher, closes, txs>>
    /\ UNCHANGED <<svars, cvars>>

\* db.go Connect
Connect(openErr, pingErr) ==
    /\ handle = "live"
    /\ opened < MaxConns
    /\ openErr \in OpenOutcomes
    /\ pingErr \in ConnectPingOutcomes(cfg, openErr, childDone)
    /\ conn' = ConnAfterConnect(cfg, conn, openErr)
    /\ opened' = OpenedAfterConnect(cfg, opened, openErr)
    /\ dlast' = DObs("Connect", ConnectValue(cfg, openErr, pingErr), Nil, openErr,
                     FALSE,
                     IF openErr # Nil THEN <<"sql.Open">> ELSE <<"sql.Open", "db.Ping">>)
    /\ UNCHANGED <<cfg, handle, parentDone, childDone, watcher, closes, txs>>
    /\ UNCHANGED <<svars, cvars>>

TxTotal(t) == t.owned + t.adhoc + t.orphan

\* How many times PrepareContext calls Connect, given what its Ping returned
\* (db.go PrepareContext, the "ping failed" branch).
ConnectAttempts_Always(pingValue) == 1
ConnectAttempts(pingValue) == IF pingValue # Nil THEN 1 ELSE 0

\* The telemetry transaction started when an agent is configured (db.go
\* PrepareContext, QueryContext, QueryRowContext).
TelemetryCalls(c) == IF c.NewRelic THEN <<"NewRelic.StartTransaction">> ELSE <<>>

\* db.go PrepareContext (Prepare delegates to it)
PrepareContext(pingErr, openErr, ping2Err, beginErr, prepErr) ==
    /\ handle = "live"
    /\ TxTotal(txs) < MaxTx
    /\ pingErr \in PingOutcomes(conn, childDone)
    /\ LET p == PingValue(conn, pingErr)
           n == ConnectAttempts(p)
           err2 == IF n = 0 THEN Nil ELSE ConnectValue(cfg, openErr, ping2Err)
           conn1 == IF n = 0 THEN conn ELSE ConnAfterConnect(cfg, conn, openErr)
           pre == <<"db.Ping">> \o (IF n = 0 THEN <<>> ELSE <<"db.Connect">>)
       IN /\ IF n = 0
             THEN openErr = Nil /\ ping2Err = Nil
             ELSE /\ opened < MaxConns
                  /\ openErr \in OpenOutcomes
                  /\ ping2Err \in ConnectPingOutcomes(cfg, openErr, childDone)
          /\ conn' = conn1
          /\ opened' = IF n = 0 THEN opened ELSE OpenedAfterConnect(cfg, opened, openErr)
          /\ IF err2 # Nil
             THEN /\ beginErr = Nil /\ prepErr = Nil
                  /\ txs' = txs
                  /\ dlast' = DObs("PrepareContext",
                                   WrapE(Wrap(p, "ping failed"), err2), p, err2,
                                   FALSE, pre)
             ELSE /\ beginErr \in ConnCallOutcomes(conn1)
                  /\ IF beginErr # Nil
                     THEN /\ prepErr = Nil
                          /\ txs' = txs
                          /\ dlast' = DObs("PrepareContext",
                                   Wrap(beginErr,
                                        "unable to initialize database transaction"),
                                   p, err2, FALSE,
                                   pre \o TelemetryCalls(cfg) \o <<"db.BeginTx">>)
                     ELSE /\ prepErr \in TxCallOutcomes
                          /\ txs' = IF prepErr # Nil
                                    THEN [txs EXCEPT !.orphan = @ + 1]
                                    ELSE [txs EXCEPT !.owned = @ + 1]
                          /\ dlast' = DObs("PrepareContext",
                                   IF prepErr # Nil
                                   THEN Wrap(prepErr, "error preparing statement")
                                   ELSE Nil,
                                   p, err2, prepErr = Nil,
                                   pre \o TelemetryCalls(cfg)
                                   \o <<"db.BeginTx", "txn.PrepareContext">>)
    /\ UNCHANGED <<cfg, handle, parentDone, childDone, watcher, closes>>
    /\ UNCHANGED <<svars, cvars>>

\* db.go QueryContext (Query delegates to it)
DBQueryContext_RollsBack(beginErr, queryErr) ==
    /\ handle = "live"
    /\ TxTotal(txs) < MaxTx
    /\ beginErr \in ConnCallOutcomes(conn)
    /\ queryErr \in (IF beginErr = Nil THEN TxCallOutcomes ELSE {Nil})
    /\ txs' = txs
    /\ dlast' = IF beginErr = Panic
                THEN DObs("Query", Panic, Nil, Nil, FALSE,
                          TelemetryCalls(cfg) \o <<"db.BeginTx", "panic">>)
                ELSE IF beginErr # Nil
                THEN DObs("Query",
                          Wrap(beginErr, "unable to initialize database transaction"),
                          Nil, beginErr, FALSE, TelemetryCalls(cfg) \o <<"db.BeginTx">>)
                ELSE DObs("Query", queryErr, Nil, queryErr, queryErr = Nil,
                          TelemetryCalls(cfg)
                          \o <<"db.BeginTx", "tx.QueryContext", "tx.Rollback">>)
    /\ UNCHANGED <<cfg, handle, conn, opened, parentDone, childDone, watcher, closes>>
    /\ UNCHANGED <<svars, cvars>>
DBQueryContext(beginErr, queryErr) ==
    /\ handle = "live"
    /\ TxTotal(txs) < MaxTx
    /\ beginErr \in ConnCallOutcomes(conn)
    /\ queryErr \in (IF beginErr = Nil THEN TxCallOutcomes ELSE {Nil})
    /\ txs' = IF beginErr = Nil THEN [txs EXCEPT !.adhoc = @ + 1] ELSE txs
    /\ dlast' = IF beginErr = Panic
                THEN DObs("Query", Panic, Nil, Nil, FALSE,
                          TelemetryCalls(cfg) \o <<"db.BeginTx", "panic">>)
                ELSE IF beginErr # Nil
                THEN DObs("Query",
                          Wrap(beginErr, "unable to initialize database transaction"),
                          Nil, beginErr, FALSE, TelemetryCalls(cfg) \o <<"db.BeginTx">>)
                ELSE DObs("Query", queryErr, Nil, queryErr, queryErr = Nil,
                          TelemetryCalls(cfg) \o <<"db.BeginTx", "tx.QueryContext">>)
    /\ UNCHANGED <<cfg, handle, conn, opened, parentDone, childDone, watcher, closes>>
    /\ UNCHANGED <<svars, cvars>>

\* db.go QueryRowContext (QueryRow delegates to it): a failure to begin the
\* transaction is logged and nil is returned.
DBQueryRowContext(beginErr) ==
    /\ handle = "live"
    /\ TxTotal(txs) < MaxTx
    /\ beginErr \in ConnCallOutcomes(conn)
    /\ txs' = IF beginErr = Nil THEN [txs EXCEPT !.adhoc = @ + 1] ELSE txs
    /\ dlast' = IF beginErr = Panic
                THEN DObs("QueryRow", Panic, Nil, Nil, FALSE,
                          TelemetryCalls(cfg) \o <<"db.BeginTx", "panic">>)
                ELSE IF beginErr # Nil
                THEN DObs("QueryRow", Nil, Nil, beginErr, FALSE,
                          TelemetryCalls(cfg) \o <<"db.BeginTx", "log.Error">>)
                ELSE DObs("QueryRow", Nil, Nil, Nil, TRUE,
                          TelemetryCalls(cfg) \o <<"db.BeginTx", "tx.QueryRowContext">>)
    /\ UNCHANGED <<cfg, handle, conn, opened, parentDone, childDone, watcher, closes>>
    /\ UNCHANGED <<svars, cvars>>

\* db.go Exec and ExecContext: passed through to the connection.
DBExecContext(err) ==
    /\ handle = "live"
    /\ err \in ConnCallOutcomes(conn)
    /\ dlast' = IF err = Panic
                THEN DObs("Exec", Panic, Nil, Nil, FALSE, <<"conn.ExecContext", "panic">>)
                ELSE DObs("Exec", err, Nil, err, err = Nil, <<"conn.ExecContext">>)
    /\ UNCHANGED <<cfg, handle, conn, opened, parentDone, childDone, watcher, closes, txs>>
    /\ UNCHANGED <<svars, cvars>>

\* The configurations New is given: each required field present or absent, with
\* or without a telemetry agent; nothing defaulted yet.
Configs ==
    [Connector : BOOLEAN, Driver : BOOLEAN, Ctx : BOOLEAN,
     DatabaseName : {EmptyName, <<"db">>}, DriverName : {EmptyName, <<"drv">>},
     NewRelic : BOOLEAN, Loc : {FALSE}, Params : {FALSE}, Cancel : {FALSE}]

\* Before New: a configuration, no handle, and no statement yet.
DBInit ==
    /\ cfg \in Configs
    /\ handle = "none"
    /\ conn = "nil"
    /\ opened = 0
    /\ parentDone = FALSE
    /\ childDone = FALSE
    /\ watcher = "none"
    /\ closes = [user |-> 0, watcher |-> 0]
    /\ txs = [owned |-> 0, adhoc |-> 0, orphan |-> 0]
    /\ dlast = DObs("none", Nil, Nil, Nil, FALSE, <<>>)
    /\ binds = <<>>
    /\ lastErr = Nil
    /\ result = "nil"
    /\ rows = NoRows
    /\ txn = "open"
    /\ stmt = "open"
    /\ nrtxn = "nil"
    /\ last = Obs("none", Nil, TRUE, Nil, <<>>, <<>>, "none")
    /\ config = BlankConfig
    /\ origin = BlankConfig
    /\ edits = 0
    /\ clast = CObs("none", <<>>, <<>>, <<>>)
    /\ segment = BaseSegment
    /\ query = <<>>

\* The errors a Ping can be given, here and inside a Connect.
PingErrs ==
    {Nil} \cup PingOutcomes(conn, childDone) \cup PingContextOutcomes("open", childDone)
CloseErrs == {Nil, ErrDriver, Panic}

DBNext ==
    \/ \E o \in OpenOutcomes, e \in {Nil} \cup PingContextOutcomes("open", parentDone) :
          New(o, e)
    \/ \E e \in PingErrs, c \in CloseErrs : DBClose(e, c)
    \/ \E e \in PingErrs, c \in CloseErrs : Watcher(e, c)
    \/ ParentCancel
    \/ ChildCancel
    \/ \E e \in PingErrs : Ping(e)
    \/ \E o \in OpenOutcomes, e \in PingErrs : Connect(o, e)
    \/ \E e \in PingErrs, o \in OpenOutcomes, e2 \in PingErrs,
          b \in {Nil} \cup ConnCallOutcomes("open") \cup ConnCallOutcomes(conn),
          q \in TxCallOutcomes : PrepareContext(e, o, e2, b, q)
    \/ \E b \in ConnCallOutcomes(conn), q \in TxCallOutcomes : DBQueryContext(b, q)
    \/ \E b \in ConnCallOutcomes(conn) : DBQueryRowContext(b)
    \/ \E e \in ConnCallOutcomes(conn) : DBExecContext(e)

SpecDB == DBInit /\ [][DBNext]_vars

\* The Go scheduler runs the shutdown goroutine once its context is done.
SpecDBFair ==
    /\ SpecDB
    /\ WF_vars(\E e \in PingErrs, c \in CloseErrs : Watcher(e, c))

\* ---- A handle built by its holder ----
\* The configurations of a handle written as a literal, &DB{Cfg: cfg, Ctx:
\* cfg.Ctx}: cfg was never given to New (no Cancel), or New got as far as its
\* defaults with it.
LiteralConfigs ==
    {c \in Configs : c.Ctx} \cup {NewDefaults(c) : c \in {k \in Configs : NewValidate(k) = Nil}}

\* The handle right after the literal: DB.Conn is nil and no goroutine watches
\* the context.
LiteralInit ==
    /\ cfg \in LiteralConfigs
    /\ handle = "live"
    /\ conn = "nil"
    /\ opened = 0
    /\ parentDone = FALSE
    /\ childDone = FALSE
    /\ watcher = "none"
    /\ closes = [user |-> 0, watcher |-> 0]
    /\ txs = [owned |-> 0, adhoc |-> 0, orphan |-> 0]
    /\ dlast = DObs("none", Nil, Nil, Nil, FALSE, <<>>)
    /\ binds = <<>>
    /\ lastErr = Nil
    /\ result = "nil"
    /\ rows = NoRows
    /\ txn = "open"
    /\ stmt = "open"
    /\ nrtxn = "nil"
    /\ last = Obs("none", Nil, TRUE, Nil, <<>>, <<>>, "none")
    /\ config = BlankConfig
    /\ origin = BlankConfig
    /\ edits = 0
    /\ clast = CObs("none", <<>>, <<>>, <<>>)
    /\ segment = BaseSegment
    /\ query = <<>>

LiteralNext ==
    \/ \E e \in PingErrs, c \in CloseErrs : DBClose(e, c)
    \/ ParentCancel
    \/ ChildCancel
    \/ \E e \in PingErrs : Ping(e)
    \/ \E o \in OpenOutcomes, e \in PingErrs : Connect(o, e)
    \/ \E e \in PingErrs, o \in OpenOutcomes, e2 \in PingErrs,
          b \in {Nil} \cup ConnCallOutcomes("open") \cup ConnCallOutcomes(conn),
          q \in TxCallOutcomes : PrepareContext(e, o, e2, b, q)
    \/ \E b \in ConnCallOutcomes(conn), q \in TxCallOutcomes : DBQueryContext(b, q)
    \/ \E b \in ConnCallOutcomes(conn) : DBQueryRowContext(b)
    \/ \E e \in ConnCallOutcomes(conn) : DBExecContext(e)

SpecLiteral == LiteralInit /\ [][LiteralNext]_vars

----------------------------------------------------------------------------
\* ---- The configuration and its DSN (config.go, config.<engine>.go) ----
\* A Go string is the sequence of its characters, each a one-character string;
\* an error is a chain of messages as above.

\* m[k]: the zero string for a missing key, of a nil map too.
MapGet(m, k) == IF k \in DOMAIN m.kv THEN m.kv[k] ELSE <<>>
MapHas(m, k) == k \in DOMAIN m.kv
\* m[k] = v on a map that is not nil.
MapPut(m, k, v) ==
    MakeMap([x \in (DOMAIN m.kv) \cup {k} |-> IF x = k THEN v ELSE m.kv[x]])
MapLen(m) == Cardinality(DOMAIN m.kv)
\* The orders `for k, v := range m` can visit the keys in.
RangeOrders(m) ==
    {o \in [1..MapLen(m) -> DOMAIN m.kv] : \A i, j \in 1..MapLen(m) : o[i] = o[j] => i = j}

\* strings.Trim(s, c) for a one-character cutset.
RECURSIVE TrimLeft(_, _)
TrimLeft(s, c) == IF s # <<>> /\ Head(s) = c THEN TrimLeft(Tail(s), c) ELSE s
RECURSIVE TrimRight(_, _)
TrimRight(s, c) ==
    IF s # <<>> /\ s[Len(s)] = c THEN TrimRight(SubSeq(s, 1, Len(s) - 1), c) ELSE s
Trim(s, c) == TrimRight(TrimLeft(s, c), c)

\* The text the generators' `range cfg.Params` loops append: for each key in
\* the order visited, pre + key + "=" + value + post.
RECURSIVE ParamText(_, _, _, _)
ParamText(m, order, pre, post) ==
    IF order = <<>> THEN <<>>
    ELSE pre \o Head(order) \o <<"=">> \o MapGet(m, Head(order)) \o post
         \o ParamText(m, Tail(order), pre, post)

\* config.mysql.go mysqlGenerateDSN
DefaultPort == <<"3", "3", "0", "6">>
mysqlGenerateDSN(c, order) ==
    LET data == IF MapHas(c.DSNData, "port") THEN c.DSNData
                ELSE MapPut(c.DSNData, "port", DefaultPort)
        base == MapGet(data, "user") \o <<":">> \o MapGet(data, "pass")
                \o <<"@", "t", "c", "p", "(">> \o MapGet(data, "host") \o <<":">>
                \o MapGet(data, "port") \o <<")", "/">> \o MapGet(data, "name")
        full == IF MapLen(c.Params) > 0
                THEN base \o <<"?">> \o ParamText(c.Params, order, <<>>, <<"&">>)
                ELSE base
    IN [c EXCEPT !.DSNData = data, !.DSNString = Trim(full, "&")]

\* oracleGenerateDSN
oracleGenerateDSN(c) ==
    [c EXCEPT !.DSNString = MapGet(c.DSNData, "user") \o <<"/">>
                            \o MapGet(c.DSNData, "pass") \o <<"@">>
                            \o MapGet(c.DSNData, "host")]

\* config.postgres.go pqGenerateDSN
pqGenerateDSN_PassKey(c, order) ==
    [c EXCEPT !.DSNString =
        <<"u", "s", "e", "r", "=">> \o MapGet(c.DSNData, "user")
        \o <<" ", "p", "a", "s", "s", "=">> \o MapGet(c.DSNData, "pass")
        \o <<" ", "d", "b", "n", "a", "m", "e", "=">> \o MapGet(c.DSNData, "name")
        \o <<" ", "h", "o", "s", "t", "=">> \o MapGet(c.DSNData, "host")
        \o ParamText(c.Params, order, <<" ">>, <<>>)]
pqGenerateDSN(c, order) ==
    [c EXCEPT !.DSNString =
        <<"u", "s", "e", "r", "=">> \o MapGet(c.DSNData, "user")
        \o <<" ", "p", "a", "s", "s", "w", "o", "r", "d", "=">> \o MapGet(c.DSNData, "pass")
        \o <<" ", "d", "b", "n", "a", "m", "e", "=">> \o MapGet(c.DSNData, "name")
        \o <<" ", "h", "o", "s", "t", "=">> \o MapGet(c.DSNData, "host")
        \o ParamText(c.Params, order, <<" ">>, <<>>)]

\* snowflakeGenerateDSN
snowflakeGenerateDSN(c, order) ==
    [c EXCEPT !.DSNString =
        MapGet(c.DSNData, "user") \o <<":">> \o MapGet(c.DSNData, "pass") \o <<"@">>
        \o MapGet(c.DSNData, "account") \o <<"/">> \o MapGet(c.DSNData, "db") \o <<"/">>
        \o MapGet(c.DSNData, "schema")
        \o <<"?", "w", "a", "r", "e", "h", "o", "u", "s", "e", "=">>
        \o MapGet(c.DSNData, "warehouse")
        \o <<"&", "r", "o", "l", "e", "=">> \o MapGet(c.DSNData, "role")
        \o ParamText(c.Params, order, <<"&">>, <<>>)]

\* The engines with a built-in generator and parser.
Engines == {"mysql", "oracle", "postgres", "snowflake"}

\* config.go generateDSN: which function fills DSNString.
GeneratorCalled_BuiltinFirst(c) ==
    IF c.DriverType \in Engines THEN c.DriverType
    ELSE IF c.DSNFn THEN "DSNFn"
    ELSE "none"
GeneratorCalled(c) ==
    IF c.DSNFn THEN "DSNFn"
    ELSE IF c.DriverType \in Engines THEN c.DriverType
    ELSE "none"

\* config.go generateDSN: the configuration it leaves; fnRet is what cfg.DSNFn
\* returns when called, order the order a Params loop visits the keys in.
generateDSN(c, fnRet, order) ==
    LET c1 == IF c.DSNData.isNil THEN [c EXCEPT !.DSNData = EmptyMap] ELSE c
        g == GeneratorCalled(c1)
    IN CASE g = "DSNFn" -> [c1 EXCEPT !.DSNString = fnRet]
         [] g = "mysql" -> mysqlGenerateDSN(c1, order)
         [] g = "oracle" -> oracleGenerateDSN(c1)
         [] g = "postgres" -> pqGenerateDSN(c1, order)
         [] g = "snowflake" -> snowflakeGenerateDSN(c1, order)
         [] OTHER -> c1

GenerateCalls(c) ==
    LET g == GeneratorCalled(c)
    IN CASE g = "DSNFn" -> <<"DSNFn">>
         [] g = "mysql" -> <<"mysqlGenerateDSN">>
         [] g = "oracle" -> <<"oracleGenerateDSN">>
         [] g = "postgres" -> <<"pqGenerateDSN">>
         [] g = "snowflake" -> <<"snowflakeGenerateDSN">>
         [] OTHER -> <<>>

\* Whether DSN() goes on to generate (config.go:76).
DSNGenerates_Always(c) == TRUE
DSNGenerates(c) == c.DSNString = <<>>

\* What a custom DSNFn can return.
FnRets == {<<>>, <<"f", "n">>}

\* config.go DSN
DSN(fnRet, order) ==
    /\ order \in RangeOrders(config.Params)
    /\ fnRet \in (IF DSNGenerates(config) /\ GeneratorCalled(config) = "DSNFn"
                  THEN FnRets ELSE {<<>>})
    /\ LET c1 == IF DSNGenerates(config) THEN generateDSN(config, fnRet, order)
                 ELSE config
       IN /\ config' = c1
          /\ clast' = CObs("DSN", c1.DSNString, fnRet,
                           IF DSNGenerates(config)
                           THEN <<"generateDSN">> \o GenerateCalls(config) ELSE <<>>)
    /\ UNCHANGED <<origin, edits>>
    /\ UNCHANGED <<svars, dvars, nvars>>

\* ---- The holder assigns to the configuration's fields between calls ----
SetDriverType(t) ==
    /\ edits < MaxEdits
    /\ t # config.DriverType
    /\ config' = [config EXCEPT !.DriverType = t]
    /\ edits' = edits + 1
    /\ clast' = CObs("SetDriverType", <<>>, <<>>, <<>>)
    /\ UNCHANGED origin
    /\ UNCHANGED <<svars, dvars, nvars>>

SetDSNData(k, v) ==
    /\ edits < MaxEdits
    /\ MapGet(config.DSNData, k) # v
    /\ config' = [config EXCEPT !.DSNData = MapPut(@, k, v)]
    /\ edits' = edits + 1
    /\ clast' = CObs("SetDSNData", <<>>, <<>>, <<>>)
    /\ UNCHANGED origin
    /\ UNCHANGED <<svars, dvars, nvars>>

SetParams(k, v) ==
    /\ edits < MaxEdits
    /\ MapGet(config.Params, k) # v
    /\ config' = [config EXCEPT !.Params = MapPut(@, k, v)]
    /\ edits' = edits + 1
    /\ clast' = CObs("SetParams", <<>>, <<>>, <<>>)
    /\ UNCHANGED origin
    /\ UNCHANGED <<svars, dvars, nvars>>

DriverTypes == Engines \cup {"", "sqlite"}

\* DSNData as the holder fills it in: every key of every engine with a value of
\* its own, and that with one value replaced by an empty one or a separator of
\* the formats, or with an explicit port.
BaseData ==
    MakeMap([k \in {"user", "pass", "host", "name", "account", "db", "schema",
                    "warehouse", "role"} |->
        CASE k = "user" -> <<"u">> [] k = "pass" -> <<"p">> [] k = "host" -> <<"h">>
          [] k = "name" -> <<"n">> [] k = "account" -> <<"a">> [] k = "db" -> <<"d">>
          [] k = "schema" -> <<"s">> [] k = "warehouse" -> <<"w">>
          [] OTHER -> <<"r">>])
EdgeVals == {<<>>, <<"&">>, <<"/">>, <<"@">>}
GenData ==
    {NilMap, EmptyMap, BaseData, MapPut(BaseData, "port", <<"9">>)}
    \cup {MapPut(BaseData, k, v) : k \in {"user", "pass", "host", "name"}, v \in EdgeVals}
GenParams ==
    {NilMap, EmptyMap, MakeMap([k \in {<<"k">>} |-> <<"v">>]),
     MakeMap([k \in {<<"k">>, <<"j">>} |-> IF k = <<"k">> THEN <<"v">> ELSE <<"&">>])}

\* The configurations DSN() is called on.
GenConfigs ==
    {[BlankConfig EXCEPT !.DriverType = t, !.DSNData = d, !.Params = p, !.DSNFn = f,
                         !.DSNString = s] :
        t \in DriverTypes, d \in GenData, p \in GenParams, f \in BOOLEAN,
        s \in {<<>>, <<"s">>}}

GenInit ==
    /\ config \in GenConfigs
    /\ origin = BlankConfig
    /\ edits = 0
    /\ clast = CObs("none", <<>>, <<>>, <<>>)
    /\ segment = BaseSegment
    /\ query = <<>>
    /\ cfg = [Connector |-> FALSE, Driver |-> FALSE, Ctx |-> FALSE,
              DatabaseName |-> EmptyName, DriverName |-> EmptyName,
              NewRelic |-> FALSE, Loc |-> FALSE, Params |-> FALSE, Cancel |-> FALSE]
    /\ handle = "none"
    /\ conn = "nil"
    /\ opened = 0
    /\ parentDone = FALSE
    /\ childDone = FALSE
    /\ watcher = "none"
    /\ closes = [user |-> 0, watcher |-> 0]
    /\ txs = [owned |-> 0, adhoc |-> 0, orphan |-> 0]
    /\ dlast = DObs("none", Nil, Nil, Nil, FALSE, <<>>)
    /\ binds = <<>>
    /\ lastErr = Nil
    /\ result = "nil"
    /\ rows = NoRows
    /\ txn = "open"
    /\ stmt = "open"
    /\ nrtxn = "nil"
    /\ last = Obs("none", Nil, TRUE, Nil, <<>>, <<>>, "none")

GenNext ==
    \/ \E f \in FnRets, o \in RangeOrders(config.Params) : DSN(f, o)
    \/ \E t \in DriverTypes : SetDriverType(t)
    \/ \E v \in {<<"z">>} : SetDSNData("user", v)
    \/ \E v \in {<<"z">>} : SetParams(<<"k">>, v)

SpecGen == GenInit /\ [][GenNext]_vars

\* ---- ParseDSN (config.go:84-187) and the engine parsers ----
ErrDSNStringEmpty == <<"DSNString is empty">>
ErrInvalidTLSConfig == <<"invalid value / unknown config name">>
ErrInvalidOracleDSN == <<"invalid Oracle DSN string">>
ErrPqMissingEqual == <<"missing = after key in connection info string">>
ErrPqBackslash == <<"missing character after backslash">>
ErrPqUnterminated == <<"unterminated quoted string literal in connection string">>
ErrUnknownTimeZone == <<"unknown time zone">>
\* What the parsers of the mysql and snowflake drivers, and a custom DSNParser,
\* report for a string they reject.
ErrDriverDSN == <<"invalid DSN">>
ErrCustomParser == <<"custom parser error">>

\* strings.Index(s, c) for a one-character c: -1 when c does not occur.
RECURSIVE IndexFrom(_, _, _)
IndexFrom(s, c, i) ==
    IF i > Len(s) THEN -1
    ELSE IF s[i] = c THEN i - 1
    ELSE IndexFrom(s, c, i + 1)
Index(s, c) == IndexFrom(s, c, 1)
Contains(s, c) == Index(s, c) >= 0

\* strings.Split(s, c) for a one-character c: the pieces between the
\* occurrences of c, one more than there are occurrences.
RECURSIVE Split(_, _)
Split(s, c) ==
    IF ~Contains(s, c) THEN <<s>>
    ELSE <<SubSeq(s, 1, Index(s, c))>> \o Split(SubSeq(s, Index(s, c) + 2, Len(s)), c)

\* strings.SplitN(s, c, 2)
SplitN2(s, c) ==
    IF ~Contains(s, c) THEN <<s>>
    ELSE <<SubSeq(s, 1, Index(s, c)), SubSeq(s, Index(s, c) + 2, Len(s))>>

\* oracleParseDSN: whether the string is accepted, and the fields it stores.
oracleValid_UserRequired(s) ==
    Contains(s, "/") /\ Contains(s, "@") /\ 0 < Index(s, "/") /\ Index(s, "/") < Index(s, "@")
oracleValid(s) == Contains(s, "/") /\ Contains(s, "@") /\ Index(s, "/") < Index(s, "@")
oracleFields_PassFirst(s) ==
    LET p1 == Split(s, "@")
        p0 == Split(p1[1], "/")
    IN [user |-> p0[2], pass |-> p0[1], host |-> p1[2]]
oracleFields(s) ==
    LET p1 == Split(s, "@")
        p0 == Split(p1[1], "/")
    IN [user |-> p0[1], pass |-> p0[2], host |-> p1[2]]
oracleParseDSN(c) ==
    IF oracleValid(c.DSNString)
    THEN LET f == oracleFields(c.DSNString)
         IN [cfg |-> [c EXCEPT !.DSNData =
                        MapPut(MapPut(MapPut(@, "user", f.user), "pass", f.pass),
                               "host", f.host)],
             err |-> Nil]
    ELSE [cfg |-> c, err |-> ErrInvalidOracleDSN]

\* ---- config.postgres.go: the libpq-style tokenizer ----
\* unicode.IsSpace, on the characters the model's strings are made of.
IsSpace(r) == r = " "
\* The rune a scanner call returns with ok = false: the zero rune.
NoRune == ""

\* pqscanner.Next at index i of s (i characters consumed).
pqNext_PastEnd(s, i) ==
    IF i >= Len(s) THEN [r |-> NoRune, ok |-> FALSE, i |-> i + 1]
    ELSE [r |-> s[i + 1], ok |-> TRUE, i |-> i + 1]
pqNext(s, i) ==
    IF i >= Len(s) THEN [r |-> NoRune, ok |-> FALSE, i |-> i]
    ELSE [r |-> s[i + 1], ok |-> TRUE, i |-> i + 1]

\* pqscanner.SkipSpaces: the loop after its first Next.
RECURSIVE pqSkipLoop(_, _)
pqSkipLoop(s, st) == IF IsSpace(st.r) /\ st.ok THEN pqSkipLoop(s, pqNext(s, st.i)) ELSE st
pqSkipSpaces(s, i) == pqSkipLoop(s, pqNext(s, i))

\* pqParseDSN, "Scan the key": st is the scanner after the rune st.r was read.
RECURSIVE pqScanKey(_, _, _)
pqScanKey(s, st, key) ==
    IF ~IsSpace(st.r) /\ st.r # "="
    THEN LET n == pqNext(s, st.i)
         IN IF ~n.ok THEN [st |-> n, key |-> key \o <<st.r>>]
            ELSE pqScanKey(s, n, key \o <<st.r>>)
    ELSE [st |-> st, key |-> key]

\* pqParseDSN, the unquoted value: a backslash is replaced by the rune after it
\* (config.postgres.go:88-92).
pqEscape_None(s, st) == st
pqEscape(s, st) == IF st.r = "\\" THEN pqNext(s, st.i) ELSE st
RECURSIVE pqScanBare(_, _, _)
pqScanBare(s, st, val) ==
    IF IsSpace(st.r) THEN [err |-> Nil, st |-> st, val |-> val]
    ELSE LET e == pqEscape(s, st)
         IN IF ~e.ok THEN [err |-> ErrPqBackslash, st |-> e, val |-> val]
            ELSE LET n == pqNext(s, e.i)
                 IN IF ~n.ok THEN [err |-> Nil, st |-> n, val |-> val \o <<e.r>>]
                    ELSE pqScanBare(s, n, val \o <<e.r>>)

\* pqParseDSN, the quoted value (the loop labelled quote).
RECURSIVE pqScanQuoted(_, _, _)
pqScanQuoted(s, st, val) ==
    LET n == pqNext(s, st.i)
    IN IF ~n.ok THEN [err |-> ErrPqUnterminated, st |-> n, val |-> val]
       ELSE IF n.r = "'" THEN [err |-> Nil, st |-> n, val |-> val]
       ELSE IF n.r = "\\"
            THEN LET e == pqNext(s, n.i)
                 IN pqScanQuoted(s, e, val \o <<e.r>>)
       ELSE pqScanQuoted(s, n, val \o <<n.r>>)

\* o[string(keyRunes)] = string(valRunes) (config.postgres.go:82, 116).
pqStore_KeepFirst(o, key, val) == IF MapHas(o, key) THEN o ELSE MapPut(o, key, val)
pqStore(o, key, val) == MapPut(o, key, val)

\* pqParseDSN: the outer loop from scanner index i with the values o so far.
\* `at` lists the scanner index each iteration began at, then the index the
\* scanner ended at.
RECURSIVE pqLoop(_, _, _)
pqLoop(s, i, o) ==
    LET first == pqSkipSpaces(s, i)
    IN IF ~first.ok THEN [values |-> o, err |-> Nil, at |-> <<i, first.i>>]
       ELSE LET k == pqScanKey(s, first, <<>>)
                eq == IF k.st.r # "=" THEN pqSkipSpaces(s, k.st.i) ELSE k.st
            IN IF eq.r # "=" \/ ~eq.ok
               THEN [values |-> EmptyMap, err |-> ErrPqMissingEqual, at |-> <<i, eq.i>>]
               ELSE LET v0 == pqSkipSpaces(s, eq.i)
                    IN IF ~v0.ok
                       THEN [values |-> pqStore(o, k.key, <<>>), err |-> Nil,
                             at |-> <<i, v0.i>>]
                       ELSE LET v == IF v0.r # "'" THEN pqScanBare(s, v0, <<>>)
                                     ELSE pqScanQuoted(s, v0, <<>>)
                            IN IF v.err # Nil
                               THEN [values |-> EmptyMap, err |-> v.err,
                                     at |-> <<i, v.st.i>>]
                               ELSE [pqLoop(s, v.st.i, pqStore(o, k.key, v.val))
                                     EXCEPT !.at = <<i>> \o @]
pqParseDSN(dsn) == pqLoop(dsn, 0, EmptyMap)

\* The keys postgresParseDSN copies into DSNData.
PqHost == <<"h", "o", "s", "t">>
PqDbname == <<"d", "b", "n", "a", "m", "e">>
PqPassword == <<"p", "a", "s", "s", "w", "o", "r", "d">>
PqUser == <<"u", "s", "e", "r">>

\* postgresParseDSN
postgresParseDSN(c) ==
    LET parsed == pqParseDSN(c.DSNString)
        v == parsed.values
        others == (DOMAIN v.kv) \ {PqHost, PqDbname, PqPassword, PqUser}
    IN IF parsed.err # Nil THEN [cfg |-> c, err |-> parsed.err]
       ELSE [cfg |-> [c EXCEPT
                !.DSNData = MapPut(MapPut(MapPut(MapPut(@, "host", MapGet(v, PqHost)),
                                                 "name", MapGet(v, PqDbname)),
                                          "pass", MapGet(v, PqPassword)),
                                   "user", MapGet(v, PqUser)),
                !.Params = MakeMap([k \in (DOMAIN c.Params.kv) \cup others |->
                                      IF k \in others THEN v.kv[k]
                                      ELSE c.Params.kv[k]])],
             err |-> Nil]

\* ---- The drivers' own parsers, the environment of mysqlParseDSN and
\* snowflakeParseDSN ----
\* mysql.ParseDSN: an error, or a configuration whose Params map is allocated
\* only when the DSN carries a parameter the driver has no field for.
MysqlParses ==
    {[err |-> ErrDriverDSN, Addr |-> <<>>, DBName |-> <<>>, Passwd |-> <<>>,
      User |-> <<>>, Params |-> NilMap],
     [err |-> Nil, Addr |-> <<"h">>, DBName |-> <<"n">>, Passwd |-> <<"p">>,
      User |-> <<"u">>, Params |-> NilMap],
     [err |-> Nil, Addr |-> <<"h">>, DBName |-> <<"n">>, Passwd |-> <<"p">>,
      User |-> <<"u">>, Params |-> MakeMap([k \in {<<"c">>} |-> <<"v">>])]}
\* gosnowflake.ParseDSN: an error, or a configuration and its parameters.
SnowflakeParses ==
    {[err |-> ErrDriverDSN, User |-> <<>>, Password |-> <<>>, Account |-> <<>>,
      Database |-> <<>>, Schema |-> <<>>, Warehouse |-> <<>>, Role |-> <<>>,
      Params |-> EmptyMap],
     [err |-> Nil, User |-> <<"u">>, Password |-> <<"p">>, Account |-> <<"a">>,
      Database |-> <<"d">>, Schema |-> <<"s">>, Warehouse |-> <<"w">>,
      Role |-> <<"r">>, Params |-> EmptyMap],
     [err |-> Nil, User |-> <<"u">>, Password |-> <<"p">>, Account |-> <<"a">>,
      Database |-> <<"d">>, Schema |-> <<"s">>, Warehouse |-> <<"w">>,
      Role |-> <<"r">>, Params |-> MakeMap([k \in {<<"c">>} |-> <<"v">>])]}

\* config.mysql.go mysqlParseDSN, given what mysql.ParseDSN returned.
mysqlParams(c, parsed) == parsed.Params
mysqlParseDSN(c, parsed) ==
    IF parsed.err # Nil THEN [cfg |-> c, err |-> parsed.err]
    ELSE [cfg |-> [c EXCEPT
             !.DSNData = MapPut(MapPut(MapPut(MapPut(@, "host", parsed.Addr),
                                              "name", parsed.DBName),
                                       "pass", parsed.Passwd),
                                "user", parsed.User),
             !.Params = mysqlParams(c, parsed)],
          err |-> Nil]

\* snowflakeParseDSN, given what gosnowflake.ParseDSN returned.
snowflakeParseDSN(c, parsed) ==
    IF parsed.err # Nil THEN [cfg |-> c, err |-> parsed.err]
    ELSE [cfg |-> [c EXCEPT
             !.DSNData =
                 MapPut(MapPut(MapPut(MapPut(MapPut(MapPut(MapPut(@,
                     "user", parsed.User), "pass", parsed.Password),
                     "account", parsed.Account), "db", parsed.Database),
                     "schema", parsed.Schema), "warehouse", parsed.Warehouse),
                     "role", parsed.Role),
             !.Params = MakeMap([k \in (DOMAIN c.Params.kv) \cup (DOMAIN parsed.Params.kv) |->
                                   IF k \in DOMAIN parsed.Params.kv
                                   THEN parsed.Params.kv[k] ELSE c.Params.kv[k]])],
          err |-> Nil]

\* ---- The generic parse (config.go:118-187) ----
\* dsnPattern (config.go:245-251), matched the way Go's regexp does (leftmost,
\* first alternative in backtracking order).  The first [user[:password]@]
\* group is followed by a second ^, so it can only match nothing and its two
\* captures are empty; the second copy of the group captures.
\*
\* AfterNet(s, r): where the [net[(addr)]] part starting at index r can end so
\* that a "/" follows: the index k of the character after net.
AddrEnd(s, k) ==
    IF \E m \in (k + 1)..Len(s) : s[m] = ")"
    THEN CHOOSE m \in (k + 1)..Len(s) :
             s[m] = ")" /\ \A i \in (k + 1)..(m - 1) : s[i] # ")"
    ELSE 0
AfterNet(s, r) ==
    {k \in r..Len(s) :
        /\ \A i \in r..(k - 1) : s[i] # "("
        /\ \/ s[k] = "/"
           \/ /\ s[k] = "("
              /\ AddrEnd(s, k) # 0
              /\ AddrEnd(s, k) < Len(s)
              /\ s[AddrEnd(s, k) + 1] = "/"}
\* The ends j (the index of "@") of a [user[:password]@] prefix whose user is
\* s[1..i], such that the rest of the pattern matches what follows.
AtAfterUser(s, i) ==
    IF i + 1 > Len(s) THEN {}
    ELSE IF s[i + 1] = "@" THEN {j \in {i + 1} : AfterNet(s, j + 1) # {}}
    ELSE IF s[i + 1] = ":"
         THEN {j \in (i + 2)..Len(s) : s[j] = "@" /\ AfterNet(s, j + 1) # {}}
    ELSE {}
Max(S) == CHOOSE x \in S : \A y \in S : y <= x
Min(S) == CHOOSE x \in S : \A y \in S : x <= y

\* [user[:password]@]: the user ends at the first index (lazy) a match goes on
\* from, the password at the last "@" (greedy) a match goes on from.
UserSpan(s, i) == [has |-> TRUE, i |-> i, j |-> Max(AtAfterUser(s, i))]
MatchUser(s) ==
    LET users == {i \in 0..Len(s) : AtAfterUser(s, i) # {}}
    IN IF users = {} THEN [has |-> FALSE, i |-> 0, j |-> 0] ELSE UserSpan(s, Min(users))
\* [net[(addr)]] from index r: k is the index after net (greedy), t the index
\* of the "/" before dbname.
NetSpan(s, k) ==
    [matched |-> TRUE, k |-> k, hasAddr |-> s[k] = "(",
     t |-> IF s[k] = "(" THEN AddrEnd(s, k) + 1 ELSE k]
MatchNet(s, r) ==
    LET ends == AfterNet(s, r)
    IN IF ends = {} THEN [matched |-> FALSE, k |-> r, hasAddr |-> FALSE, t |-> r]
       ELSE NetSpan(s, Max(ends))
\* /dbname[?params]: dbname is lazy and params holds no "?", so params starts
\* after the last "?".
MatchParams(s, t) ==
    LET marks == {q \in (t + 1)..Len(s) : s[q] = "?"}
    IN IF marks = {} THEN [has |-> FALSE, q |-> Len(s) + 1] ELSE [has |-> TRUE, q |-> Max(marks)]
Submatch(s, u, n, p) ==
    [matched |-> n.matched,
     user |-> SubSeq(s, 1, u.i),
     passwd |-> IF u.has /\ u.j > u.i + 1 THEN SubSeq(s, u.i + 2, u.j - 1) ELSE <<>>,
     net |-> SubSeq(s, u.j + 1, n.k - 1),
     addr |-> IF n.hasAddr THEN SubSeq(s, n.k + 1, n.t - 2) ELSE <<>>,
     dbname |-> SubSeq(s, n.t + 1, p.q - 1),
     params |-> IF p.has THEN SubSeq(s, p.q + 1, Len(s)) ELSE <<>>]
SubmatchNet(s, u, n) == Submatch(s, u, n, MatchParams(s, n.t))
SubmatchUser(s, u) == SubmatchNet(s, u, MatchNet(s, u.j + 1))

\* dsnPattern.FindStringSubmatch(s): whether it matched, and its captures.
FindStringSubmatch(s) == SubmatchUser(s, MatchUser(s))

\* config.go readBool
BoolTrue == {<<"1">>, <<"t", "r", "u", "e">>, <<"T", "R", "U", "E">>, <<"T", "r", "u", "e">>}
BoolFalse ==
    {<<"0">>, <<"f", "a", "l", "s", "e">>, <<"F", "A", "L", "S", "E">>,
     <<"F", "a", "l", "s", "e">>}

\* strings.ToLower
UpperCase ==
    <<"A", "B", "C", "D", "E", "F", "G", "H", "I", "J", "K", "L", "M", "N", "O", "P",
      "Q", "R", "S", "T", "U", "V", "W", "X", "Y", "Z">>
LowerCase ==
    <<"a", "b", "c", "d", "e", "f", "g", "h", "i", "j", "k", "l", "m", "n", "o", "p",
      "q", "r", "s", "t", "u", "v", "w", "x", "y", "z">>
ToLower(s) ==
    [n \in 1..Len(s) |->
        IF \E u \in 1..Len(UpperCase) : UpperCase[u] = s[n]
        THEN LowerCase[CHOOSE u \in 1..Len(UpperCase) : UpperCase[u] = s[n]]
        ELSE s[n]]
SkipVerify == <<"s", "k", "i", "p", "-", "v", "e", "r", "i", "f", "y">>

\* tlsConfigRegister (config.go:254): nothing in the package registers a name.
tlsConfigRegister == {}

\* time.LoadLocation: the names every Go installation resolves; the time zone
\* database holds no zone under any other name the model's strings spell.
LoadLocation(name) ==
    IF name = <<>> \/ name = <<"U", "T", "C">> THEN [loc |-> "UTC", err |-> Nil]
    ELSE IF name = <<"L", "o", "c", "a", "l">> THEN [loc |-> "Local", err |-> Nil]
    ELSE [loc |-> "nil", err |-> ErrUnknownTimeZone]

KeyLoc == <<"l", "o", "c">>
KeyTLS == <<"t", "l", "s">>

\* One iteration of the params loop (config.go:141-177) on the entry v; st
\* carries the configuration, err and whether the function has returned.
ParamStep(st, v) ==
    LET param == SplitN2(v, "=")
        value == param[2]
    IN IF st.returned \/ Len(param) # 2 THEN st
       ELSE IF param[1] = KeyLoc
       THEN LET l == LoadLocation(value)
            IN [st EXCEPT !.cfg.Loc = l.loc, !.err = l.err, !.returned = l.err # Nil]
       ELSE IF param[1] = KeyTLS
       THEN IF value \in BoolTrue THEN [st EXCEPT !.cfg.TLS = "default"]
            ELSE IF value \in BoolFalse THEN st
            ELSE IF ToLower(value) = SkipVerify THEN [st EXCEPT !.cfg.TLS = "skip-verify"]
            ELSE IF value \in tlsConfigRegister THEN [st EXCEPT !.cfg.TLS = "registered"]
            ELSE [st EXCEPT !.err = ErrInvalidTLSConfig]
       ELSE [st EXCEPT !.cfg.Params = MapPut(@, param[1], value)]

RECURSIVE ParamLoop(_, _)
ParamLoop(st, entries) ==
    IF entries = <<>> THEN st ELSE ParamLoop(ParamStep(st, Head(entries)), Tail(entries))

\* The default location (config.go:182-184).
LocDefault_None(loc) == loc
LocDefault(loc) == IF loc = "nil" THEN "UTC" ELSE loc

\* config.go:120-179: the captures stored, then the params loop.
GenericLoop(c, m) ==
    IF m.matched
    THEN ParamLoop([cfg |-> [c EXCEPT !.DSNData =
                                MapPut(MapPut(MapPut(MapPut(MapPut(@,
                                    "user", m.user), "pass", m.passwd), "net", m.net),
                                    "addr", m.addr), "name", m.dbname)],
                    err |-> Nil, returned |-> FALSE],
                   Split(m.params, "&"))
    ELSE [cfg |-> c, err |-> Nil, returned |-> FALSE]
\* config.go:181-186, reached unless the loop returned.
GenericFinish(st) ==
    IF st.returned THEN [cfg |-> st.cfg, err |-> st.err]
    ELSE [cfg |-> [st.cfg EXCEPT !.Loc = LocDefault(@)], err |-> st.err]
\* config.go:118-187, on a configuration whose maps are allocated.
genericParseDSN(c) == GenericFinish(GenericLoop(c, FindStringSubmatch(c.DSNString)))

\* config.go ParseDSN: which way it goes once the maps are allocated.
ParseDispatch_ParserFirst(c) ==
    IF c.DSNParser THEN "DSNParser"
    ELSE IF c.DSNString = <<>> THEN "empty"
    ELSE IF c.DriverType \in Engines THEN c.DriverType
    ELSE "generic"
ParseDispatch_EnginesFirst(c) ==
    IF c.DSNString = <<>> THEN "empty"
    ELSE IF c.DriverType \in Engines THEN c.DriverType
    ELSE IF c.DSNParser THEN "DSNParser"
    ELSE "generic"
ParseDispatch(c) ==
    IF c.DSNString = <<>> THEN "empty"
    ELSE IF c.DSNParser THEN "DSNParser"
    ELSE IF c.DriverType \in Engines THEN c.DriverType
    ELSE "generic"

ParseCalls(c) ==
    LET d == ParseDispatch(c)
    IN CASE d = "empty" -> <<>>
         [] d = "DSNParser" -> <<"DSNParser">>
         [] d = "mysql" -> <<"mysqlParseDSN", "mysql.ParseDSN">>
         [] d = "oracle" -> <<"oracleParseDSN">>
         [] d = "postgres" -> <<"postgresParseDSN", "pqParseDSN">>
         [] d = "snowflake" -> <<"snowflakeParseDSN", "gosnowflake.ParseDSN">>
         [] OTHER -> <<"dsnPattern.FindStringSubmatch">>

\* The maps ParseDSN allocates first (config.go:87-92).
ParseAllocates(c) ==
    [c EXCEPT !.DSNData = IF @.isNil THEN EmptyMap ELSE @,
              !.Params = IF @.isNil THEN EmptyMap ELSE @]

\* A custom DSNParser is the holder's code: it returns an error or none, and it
\* may store what it parsed in the configuration.
ParserRets == {Nil, ErrCustomParser}
ParserEffects == {"none", "host", "loc"}
ParserEffect(c, e) ==
    CASE e = "host" -> [c EXCEPT !.DSNData = MapPut(@, "host", <<"c">>)]
      [] e = "loc" -> [c EXCEPT !.Loc = "Local"]
      [] OTHER -> c

\* config.go ParseDSN; parserRet and effect are what a custom DSNParser returns
\* and does, my and sf what the drivers' parsers return.
ParseResult(c, parserRet, effect, my, sf) ==
    LET c0 == ParseAllocates(c)
        d == ParseDispatch(c0)
    IN CASE d = "empty" -> [cfg |-> c0, err |-> ErrDSNStringEmpty]
         [] d = "DSNParser" -> [cfg |-> ParserEffect(c0, effect), err |-> parserRet]
         [] d = "mysql" -> mysqlParseDSN(c0, my)
         [] d = "oracle" -> oracleParseDSN(c0)
         [] d = "postgres" -> postgresParseDSN(c0)
         [] d = "snowflake" -> snowflakeParseDSN(c0, sf)
         [] OTHER -> genericParseDSN(c0)

ParseStore(res, inner, calls) ==
    /\ config' = res.cfg
    /\ clast' = CObs("ParseDSN", res.err, inner, calls)
ParseEnv(d, parserRet, effect, my, sf) ==
    /\ parserRet \in (IF d = "DSNParser" THEN ParserRets ELSE {Nil})
    /\ effect \in (IF d = "DSNParser" THEN ParserEffects ELSE {"none"})
    /\ my \in (IF d = "mysql" THEN MysqlParses ELSE {m \in MysqlParses : m.err # Nil})
    /\ sf \in (IF d = "snowflake" THEN SnowflakeParses
                ELSE {m \in SnowflakeParses : m.err # Nil})
ParseDSN(parserRet, effect, my, sf) ==
    /\ ParseEnv(ParseDispatch(config), parserRet, effect, my, sf)
    /\ ParseStore(ParseResult(config, parserRet, effect, my, sf), parserRet,
                  ParseCalls(config))
    /\ UNCHANGED <<origin, edits>>
    /\ UNCHANGED <<svars, dvars, nvars>>

\* cfg2 := &Config{DriverType: cfg.DriverType, DSNString: cfg.DSN()}: a fresh
\* configuration for the string this one's DSN() returned.
Fresh ==
    /\ clast.op = "DSN"
    /\ origin' = config
    /\ config' = [BlankConfig EXCEPT !.DriverType = config.DriverType,
                                     !.DSNString = clast.ret]
    /\ clast' = CObs("Fresh", <<>>, <<>>, <<>>)
    /\ UNCHANGED edits
    /\ UNCHANGED <<svars, dvars, nvars>>

\* ---- The strings ParseDSN is given ----
\* Every string of the separators of the oracle format and a letter.
OracleChars == {"a", "/", "@"}
OracleStrings == SeqsUpTo(OracleChars, MaxStr)
\* libpq-style strings: accepted, unterminated, ending after "=".
PqStrings ==
    {<<"a", "=", "a">>, <<"h", "o", "s", "t", "=", "a", " ", "k", "=", "'", "v", "'">>,
     <<"k", "=", "'", "v">>, <<"k", "=", "v", "\\">>, <<"k", " ", "=">>}
\* "/?" and key=value entries joined by "&".
ParamTokens ==
    {<<"l", "o", "c", "=", "U", "T", "C">>, <<"l", "o", "c", "=", "x">>,
     <<"t", "l", "s", "=", "1">>, <<"t", "l", "s", "=", "x">>, <<"k", "=", "v">>}
RECURSIVE JoinTokens(_)
JoinTokens(ts) ==
    IF ts = <<>> THEN <<>>
    ELSE Head(ts) \o (IF Tail(ts) = <<>> THEN <<>> ELSE <<"&">>) \o JoinTokens(Tail(ts))
GenericStrings ==
    {<<"u", "@", "/", "n", "?">> \o JoinTokens(ts) :
        ts \in SeqsUpTo(ParamTokens, MaxParams) \ {<<>>}}
ParseStrings == OracleStrings \cup PqStrings \cup GenericStrings

\* The configurations ParseDSN is called on.
ParseConfigs ==
    {[BlankConfig EXCEPT !.DriverType = t, !.DSNData = d, !.DSNFn = f,
                         !.DSNParser = p, !.DSNString = s, !.Loc = l] :
        t \in DriverTypes, d \in {NilMap, BaseData}, f \in BOOLEAN, p \in BOOLEAN,
        s \in ParseStrings, l \in {"nil", "Local"}}

ParseInit ==
    /\ config \in ParseConfigs
    /\ origin = BlankConfig
    /\ edits = 0
    /\ clast = CObs("none", <<>>, <<>>, <<>>)
    /\ segment = BaseSegment
    /\ query = <<>>
    /\ cfg = [Connector |-> FALSE, Driver |-> FALSE, Ctx |-> FALSE,
              DatabaseName |-> EmptyName, DriverName |-> EmptyName,
              NewRelic |-> FALSE, Loc |-> FALSE, Params |-> FALSE, Cancel |-> FALSE]
    /\ handle = "none"
    /\ conn = "nil"
    /\ opened = 0
    /\ parentDone = FALSE
    /\ childDone = FALSE
    /\ watcher = "none"
    /\ closes = [user |-> 0, watcher |-> 0]
    /\ txs = [owned |-> 0, adhoc |-> 0, orphan |-> 0]
    /\ dlast = DObs("none", Nil, Nil, Nil, FALSE, <<>>)
    /\ binds = <<>>
    /\ lastErr = Nil
    /\ result = "nil"
    /\ rows = NoRows
    /\ txn = "open"
    /\ stmt = "open"
    /\ nrtxn = "nil"
    /\ last = Obs("none", Nil, TRUE, Nil, <<>>, <<>>, "none")

ParseNext ==
    \E r \in ParserRets, e \in ParserEffects, my \in MysqlParses, sf \in SnowflakeParses :
        ParseDSN(r, e, my, sf)

SpecParse == ParseInit /\ [][ParseNext]_vars

\* ---- The tokenizer on every short string of its alphabet ----
\* A key or value letter, "=", a space, a quote and a backslash.
PqChars == {"k", "=", " ", "'", "\\"}
\* Longer strings: a key given twice, quoted and escaped values.
PqLongStrings ==
    {<<"k", "=", "v", " ", "k", "=", "w">>,
     <<"k", "=", "v", " ", "j", "=", "w", " ", "k", "=">>,
     <<"k", "=", "'", "a", "\\", "'", "b", "'", " ", "j", "=", "\\", " ">>}
PqInputs == SeqsUpTo(PqChars, MaxPq) \cup PqStrings \cup PqLongStrings
PqConfigs ==
    {[BlankConfig EXCEPT !.DriverType = "postgres", !.DSNString = s, !.Params = ps] :
        s \in PqInputs, ps \in {NilMap, MakeMap([k \in {<<"k">>} |-> <<"o">>])}}

PqInit ==
    /\ config \in PqConfigs
    /\ origin = BlankConfig
    /\ edits = 0
    /\ clast = CObs("none", <<>>, <<>>, <<>>)
    /\ segment = BaseSegment
    /\ query = <<>>
    /\ cfg = [Connector |-> FALSE, Driver |-> FALSE, Ctx |-> FALSE,
              DatabaseName |-> EmptyName, DriverName |-> EmptyName,
              NewRelic |-> FALSE, Loc |-> FALSE, Params |-> FALSE, Cancel |-> FALSE]
    /\ handle = "none"
    /\ conn = "nil"
    /\ opened = 0
    /\ parentDone = FALSE
    /\ childDone = FALSE
    /\ watcher = "none"
    /\ closes = [user |-> 0, watcher |-> 0]
    /\ txs = [owned |-> 0, adhoc |-> 0, orphan |-> 0]
    /\ dlast = DObs("none", Nil, Nil, Nil, FALSE, <<>>)
    /\ binds = <<>>
    /\ lastErr = Nil
    /\ result = "nil"
    /\ rows = NoRows
    /\ txn = "open"
    /\ stmt = "open"
    /\ nrtxn = "nil"
    /\ last = Obs("none", Nil, TRUE, Nil, <<>>, <<>>, "none")

PqNext ==
    \E r \in ParserRets, e \in ParserEffects, my \in MysqlParses, sf \in SnowflakeParses :
        ParseDSN(r, e, my, sf)

SpecPq == PqInit /\ [][PqNext]_vars

\* ---- Generate, then parse the string in a fresh configuration ----
RoundVals == {<<>>, <<"a">>, <<"/">>, <<"@">>}
OracleRoundConfigs ==
    {[BlankConfig EXCEPT !.DriverType = "oracle",
                         !.DSNData = MakeMap([k \in {"user", "pass", "host"} |->
                                                CASE k = "user" -> u [] k = "pass" -> p
                                                  [] OTHER -> h])] :
        u \in RoundVals, p \in RoundVals, h \in RoundVals}
\* Values and parameters of a postgres configuration: plain, empty, a space, a
\* quote, a backslash; a parameter named like a key postgresParseDSN reads.
PqRoundVals == {<<>>, <<"a">>, <<" ">>, <<"'">>, <<"\\">>}
PqRoundParams ==
    {EmptyMap,
     MakeMap([k \in {<<"k">>} |-> <<"v">>]),
     MakeMap([k \in {<<"k">>, <<"j">>} |-> IF k = <<"k">> THEN <<"v">> ELSE <<"w">>]),
     MakeMap([k \in {<<"k">>} |-> <<>>]),
     MakeMap([k \in {<<"h", "o", "s", "t">>} |-> <<"b">>])}
PqRoundConfigs ==
    {[BlankConfig EXCEPT !.DriverType = "postgres",
                         !.DSNData = MakeMap([k \in {"user", "pass", "name", "host"} |->
                                                CASE k = "user" -> u [] k = "pass" -> p
                                                  [] k = "name" -> n [] OTHER -> h]),
                         !.Params = ps] :
        u \in PqRoundVals, p \in PqRoundVals, n \in PqRoundVals, h \in PqRoundVals,
        ps \in PqRoundParams}
RoundConfigs == OracleRoundConfigs \cup PqRoundConfigs

RoundInit ==
    /\ config \in RoundConfigs
    /\ origin = BlankConfig
    /\ edits = 0
    /\ clast = CObs("none", <<>>, <<>>, <<>>)
    /\ segment = BaseSegment
    /\ query = <<>>
    /\ cfg = [Connector |-> FALSE, Driver |-> FALSE, Ctx |-> FALSE,
              DatabaseName |-> EmptyName, DriverName |-> EmptyName,
              NewRelic |-> FALSE, Loc |-> FALSE, Params |-> FALSE, Cancel |-> FALSE]
    /\ handle = "none"
    /\ conn = "nil"
    /\ opened = 0
    /\ parentDone = FALSE
    /\ childDone = FALSE
    /\ watcher = "none"
    /\ closes = [user |-> 0, watcher |-> 0]
    /\ txs = [owned |-> 0, adhoc |-> 0, orphan |-> 0]
    /\ dlast = DObs("none", Nil, Nil, Nil, FALSE, <<>>)
    /\ binds = <<>>
    /\ lastErr = Nil
    /\ result = "nil"
    /\ rows = NoRows
    /\ txn = "open"
    /\ stmt = "open"
    /\ nrtxn = "nil"
    /\ last = Obs("none", Nil, TRUE, Nil, <<>>, <<>>, "none")

RoundNext ==
    \/ \E f \in FnRets, o \in RangeOrders(config.Params) : DSN(f, o)
    \/ Fresh
    \/ \E r \in ParserRets, e \in ParserEffects, my \in MysqlParses, sf \in SnowflakeParses :
          ParseDSN(r, e, my, sf)

SpecRound == RoundInit /\ [][RoundNext]_vars

\* ---- newrelic.go: the query-parsing callback ----
\* \s and \w of the regular expressions, on the characters of the model.
QuerySpace == {" ", "\n", "\t"}
Digits == {"0", "1", "2", "3", "4", "5", "6", "7", "8", "9"}
WordChars ==
    {LowerCase[n] : n \in DOMAIN LowerCase} \cup {UpperCase[n] : n \in DOMAIN UpperCase}
    \cup Digits \cup {"_"}

\* Whether w occurs in s at index i, and the first index from i where it does
\* (0 when it does not).
HasAt(s, i, w) == i + Len(w) - 1 <= Len(s) /\ \A n \in DOMAIN w : s[i + n - 1] = w[n]
FirstIn(S) == IF S = {} THEN 0 ELSE Min(S)
FindFrom(s, w, i) == FirstIn({j \in i..Len(s) : HasAt(s, j, w)})

\* cCommentRegex.ReplaceAllString(s, ""): each /* up to the first */ after it.
RECURSIVE cCommentStrip(_)
cCommentCut(s, a, b) ==
    IF a = 0 \/ b = 0 THEN s
    ELSE SubSeq(s, 1, a - 1) \o cCommentStrip(SubSeq(s, b + 2, Len(s)))
cCommentClose(s, a) == IF a = 0 THEN 0 ELSE FindFrom(s, <<"*", "/">>, a + 2)
cCommentOpen(s, a) == cCommentCut(s, a, cCommentClose(s, a))
cCommentStrip(s) == cCommentOpen(s, FindFrom(s, <<"/", "*">>, 1))

\* lineCommentRegex.ReplaceAllString(s, ""): each -- or # up to the end of its
\* line.
RECURSIVE lineCommentStrip(_)
lineCommentCut(s, a, e) ==
    IF a = 0 THEN s
    ELSE SubSeq(s, 1, a - 1)
         \o (IF e = 0 THEN <<>> ELSE lineCommentStrip(SubSeq(s, e, Len(s))))
lineCommentOpen(s, a) ==
    lineCommentCut(s, a, IF a = 0 THEN 0 ELSE FindFrom(s, <<"\n">>, a))
lineCommentStrip(s) ==
    lineCommentOpen(s, FirstIn({j \in 1..Len(s) : s[j] = "#" \/ HasAt(s, j, <<"-", "-">>)}))

\* sqlPrefixRegex.ReplaceAllString(s, ""): the leading whitespace and semicolons.
RECURSIVE sqlPrefixStrip(_)
sqlPrefixStrip(s) ==
    IF s # <<>> /\ Head(s) \in QuerySpace \cup {";"} THEN sqlPrefixStrip(Tail(s)) ELSE s

\* firstWordRegex.FindString(s): the leading word characters.
RECURSIVE firstWord(_)
firstWord(s) ==
    IF s # <<>> /\ Head(s) \in WordChars THEN <<Head(s)>> \o firstWord(Tail(s)) ELSE <<>>

\* The keys of sqlOperations: with a table pattern, and without (nil).
TableOperations ==
    {<<"s", "e", "l", "e", "c", "t">>, <<"d", "e", "l", "e", "t", "e">>,
     <<"i", "n", "s", "e", "r", "t">>, <<"u", "p", "d", "a", "t", "e">>}
PlainOperations ==
    {<<"c", "a", "l", "l">>, <<"c", "r", "e", "a", "t", "e">>, <<"d", "r", "o", "p">>,
     <<"s", "h", "o", "w">>, <<"s", "e", "t">>, <<"e", "x", "e", "c">>,
     <<"e", "x", "e", "c", "u", "t", "e">>, <<"a", "l", "t", "e", "r">>,
     <<"c", "o", "m", "m", "i", "t">>, <<"r", "o", "l", "l", "b", "a", "c", "k">>}
sqlOperations == TableOperations \cup PlainOperations

\* The operation looked up in sqlOperations (newrelic.go:58).
queryOperation_AsWritten(qry) == firstWord(qry)
queryOperation(qry) == ToLower(firstWord(qry))

\* basicTable: a character of a table name.
IsBasic(ch) == ch \notin QuerySpace \cup {")", "(", "]", "[", "}", "{", ",", ";"}
\* The first index from a that holds no whitespace (Len(s) + 1 at the end), and
\* the last index of the table name that starts at c.
SkipSpace(s, a) == Min({j \in a..(Len(s) + 1) : j = Len(s) + 1 \/ s[j] \notin QuerySpace})
BasicEnd(s, c) == Max({j \in c..Len(s) : \A n \in c..j : IsBasic(s[n])})
IsBasicAt(s, c) == c <= Len(s) /\ IsBasic(s[c])
\* enclosedTable from the bracket at b: the index of the closing bracket, or 0.
EnclosedClose(s, e) == IF e <= Len(s) /\ s[e] \in {"]", ")", "}"} THEN e ELSE 0
EnclosedName(s, c) ==
    IF IsBasicAt(s, c) THEN EnclosedClose(s, SkipSpace(s, BasicEnd(s, c) + 1)) ELSE 0
\* tablePattern from index a, given the first index b without whitespace: the
\* index its match ends at, or 0.
TableFrom(s, a, b) ==
    IF b > a /\ IsBasicAt(s, b) THEN BasicEnd(s, b)
    ELSE IF b <= Len(s) /\ s[b] \in {"[", "(", "{"} THEN EnclosedName(s, SkipSpace(s, b + 1))
    ELSE 0
TableEnd(s, a) == IF a > Len(s) THEN 0 ELSE TableFrom(s, a, SkipSpace(s, a))

\* Whether the word w, in any case, is at index i of s, and whether whitespace
\* and then w are at index p.
WordAt(s, i, w) == i + Len(w) - 1 <= Len(s) /\ ToLower(SubSeq(s, i, i + Len(w) - 1)) = w
SpaceWordAt(s, p, w) == p <= Len(s) /\ s[p] \in QuerySpace /\ WordAt(s, p + 1, w)
\* The captured table of "^.*?\sfrom" + tablePattern: [from, to], or <<>>.
fromTableAt(s, p) == IF p = 0 THEN <<>> ELSE <<p + 5, TableEnd(s, p + 5)>>
fromTable(s) ==
    fromTableAt(s, FirstIn({p \in 1..Len(s) :
                              SpaceWordAt(s, p, <<"f", "r", "o", "m">>)
                              /\ TableEnd(s, p + 5) # 0}))
\* "^.*?\sinto?" + tablePattern: "into" is tried before "int".
IntoStart(s, p) ==
    IF SpaceWordAt(s, p, <<"i", "n", "t", "o">>) /\ TableEnd(s, p + 5) # 0 THEN p + 5
    ELSE IF SpaceWordAt(s, p, <<"i", "n", "t">>) /\ TableEnd(s, p + 4) # 0 THEN p + 4
    ELSE 0
intoTableAt(s, a) == IF a = 0 THEN <<>> ELSE <<a, TableEnd(s, a)>>
intoTableFirst(s, p) == IF p = 0 THEN <<>> ELSE intoTableAt(s, IntoStart(s, p))
intoTable(s) == intoTableFirst(s, FirstIn({p \in 1..Len(s) : IntoStart(s, p) # 0}))
\* updateRegex: "update", as many of the modifiers as still leave a table
\* (the repetition is greedy), then tablePattern.
UpdateModifiers ==
    {<<"l", "o", "w", "_", "p", "r", "i", "o", "r", "i", "t", "y">>,
     <<"i", "g", "n", "o", "r", "e">>, <<"o", "r">>,
     <<"r", "o", "l", "l", "b", "a", "c", "k">>, <<"a", "b", "o", "r", "t">>,
     <<"r", "e", "p", "l", "a", "c", "e">>, <<"f", "a", "i", "l">>,
     <<"o", "n", "l", "y">>}
ModifierAt(s, a, b) == {w \in UpdateModifiers : b > a /\ WordAt(s, b, w)}
RECURSIVE updateTableFrom(_, _)
updateTableBack(s, a, inner) ==
    IF inner # <<>> THEN inner
    ELSE IF TableEnd(s, a) # 0 THEN <<a, TableEnd(s, a)>>
    ELSE <<>>
updateTableNext(s, a, ws) ==
    updateTableBack(s, a,
        IF ws = {} THEN <<>>
        ELSE updateTableFrom(s, SkipSpace(s, a) + Len(CHOOSE w \in ws : TRUE)))
updateTableFrom(s, a) ==
    IF a > Len(s) THEN <<>> ELSE updateTableNext(s, a, ModifierAt(s, a, SkipSpace(s, a)))
updateTable(s) ==
    IF WordAt(s, 1, <<"u", "p", "d", "a", "t", "e">>) THEN updateTableFrom(s, 7)
    ELSE <<>>

\* rg.FindStringSubmatch(qry) for the pattern of the operation op: where the
\* captured table is, or <<>> when the pattern does not match.
tableMatch(op, qry) ==
    CASE op \in {<<"s", "e", "l", "e", "c", "t">>, <<"d", "e", "l", "e", "t", "e">>} ->
            fromTable(qry)
      [] op = <<"i", "n", "s", "e", "r", "t">> -> intoTable(qry)
      [] op = <<"u", "p", "d", "a", "t", "e">> -> updateTable(qry)
      [] OTHER -> <<>>

\* extractTable: whitespace, quotes and brackets removed, then what follows the
\* first "." unless the name starts with it.
ExtractedChars == QuerySpace \cup {"\"", "'", "(", ")", "{", "}", "[", "]"}
RECURSIVE extractClean(_)
extractClean(s) ==
    IF s = <<>> THEN <<>>
    ELSE (IF Head(s) \in ExtractedChars THEN <<>> ELSE <<Head(s)>>) \o extractClean(Tail(s))
extractCut(s, idx) == IF idx > 0 THEN SubSeq(s, idx + 2, Len(s)) ELSE s
extractTable(s) == extractCut(extractClean(s), Index(extractClean(s), "."))

\* parseQueryFn (newrelic.go:48-68): the segment after the callback ran on
\* the query q with the configuration c.
segmentTable(seg, qry, m) ==
    IF m = <<>> THEN seg
    ELSE [seg EXCEPT !.Collection = extractTable(SubSeq(qry, m[1], m[2])),
                     !.wrote = @ \cup {"Collection"}]
segmentOperation(seg, qry, op) ==
    IF op \in sqlOperations
    THEN segmentTable([seg EXCEPT !.Operation = op, !.wrote = @ \cup {"Operation"}],
                      qry, tableMatch(op, qry))
    ELSE seg
segmentQuery(seg, name, host, qry) ==
    segmentOperation([seg EXCEPT !.DatabaseName = name, !.Host = host,
                                 !.ParameterizedQuery = qry,
                                 !.wrote = @ \cup {"DatabaseName", "Host",
                                                   "ParameterizedQuery"}],
                     qry, queryOperation(qry))
queryStripped(q) == sqlPrefixStrip(lineCommentStrip(cCommentStrip(q)))
parseQueryFn(seg, name, c, q) ==
    segmentQuery(seg, name, MapGet(c.DSNData, "host"), queryStripped(q))

\* The driver wrapper calls the ParseQuery callback with the query it runs.
ParseQuery ==
    /\ segment' = parseQueryFn(segment, cfg.DatabaseName, config, query)
    /\ clast' = CObs("ParseQuery", <<>>, <<>>, <<>>)
    /\ UNCHANGED <<config, origin, edits, query>>
    /\ UNCHANGED <<svars, dvars>>

\* The queries: what precedes the first word, the word, what is glued to it,
\* and what follows.
QueryLeads ==
    {<<>>, <<" ", ";", "\n">>, <<"/", "*", "c", "*", "/">>, <<"-", "-", "c", "\n">>,
     <<"/", "*">>, <<"#">>, <<"(">>}
QueryWords ==
    {<<"s", "e", "l", "e", "c", "t">>, <<"d", "e", "l", "e", "t", "e">>,
     <<"i", "n", "s", "e", "r", "t">>, <<"u", "p", "d", "a", "t", "e">>,
     <<"c", "a", "l", "l">>, <<"c", "r", "e", "a", "t", "e">>, <<"d", "r", "o", "p">>,
     <<"s", "h", "o", "w">>, <<"s", "e", "t">>, <<"e", "x", "e", "c">>,
     <<"e", "x", "e", "c", "u", "t", "e">>, <<"a", "l", "t", "e", "r">>,
     <<"c", "o", "m", "m", "i", "t">>, <<"r", "o", "l", "l", "b", "a", "c", "k">>,
     <<"S", "E", "L", "E", "C", "T">>, <<"I", "n", "s", "e", "r", "t">>,
     <<"s", "e", "l", "e", "c", "t", "s">>, <<"x">>, <<>>}
QueryGlue ==
    {<<>>, <<"/", "*", "*", "/", "x">>, <<"_", "1">>}
QueryTails ==
    {<<>>, <<" ", "f", "r", "o", "m", " ", "t">>,
     <<" ", "F", "R", "O", "M", " ", "(", "a", ".", "b", ")">>,
     <<" ", "i", "n", "t", "o", " ", "t">>, <<" ", "i", "n", "t", " ", "[", "t", "]">>,
     <<" ", "o", "n", "l", "y", " ", "t">>, <<" ", "t">>,
     <<"\n", "f", "r", "o", "m", " ", "t", " ", "-", "-", " ", "c">>,
     <<" ", "f", "r", "o", "m">>}
Queries ==
    {l \o w \o g \o t : l \in QueryLeads, w \in QueryWords, g \in QueryGlue, t \in QueryTails}
QueryConfigs ==
    {BlankConfig,
     [BlankConfig EXCEPT !.DSNData = MakeMap([k \in {"host"} |-> <<"h">>])]}

QueryInit ==
    /\ config \in QueryConfigs
    /\ origin = BlankConfig
    /\ edits = 0
    /\ clast = CObs("none", <<>>, <<>>, <<>>)
    /\ segment = BaseSegment
    /\ query \in Queries
    /\ cfg \in {[Connector |-> FALSE, Driver |-> FALSE, Ctx |-> FALSE,
                 DatabaseName |-> n, DriverName |-> EmptyName,
                 NewRelic |-> FALSE, Loc |-> FALSE, Params |-> FALSE, Cancel |-> FALSE] :
                n \in {EmptyName, <<"db">>}}
    /\ handle = "none"
    /\ conn = "nil"
    /\ opened = 0
    /\ parentDone = FALSE
    /\ childDone = FALSE
    /\ watcher = "none"
    /\ closes = [user |-> 0, watcher |-> 0]
    /\ txs = [owned |-> 0, adhoc |-> 0, orphan |-> 0]
    /\ dlast = DObs("none", Nil, Nil, Nil, FALSE, <<>>)
    /\ binds = <<>>
    /\ lastErr = Nil
    /\ result = "nil"
    /\ rows = NoRows
    /\ txn = "open"
    /\ stmt = "open"
    /\ nrtxn = "nil"
    /\ last = Obs("none", Nil, TRUE, Nil, <<>>, <<>>, "none")

QueryNext == ParseQuery

SpecQuery == QueryInit /\ [][QueryNext]_vars


\* ---- newrelic.go parseDsnFn: the callback that fills the segment's host ----
\* cfg := &Config{DSNString: dsn, DSNParser: cfg.DSNParser}: the configuration
\* the callback parses, which shadows the caller's.
dsnThrowaway_Typed(c, dsn) ==
    [BlankConfig EXCEPT !.DriverType = c.DriverType, !.DSNString = dsn,
                        !.DSNParser = c.DSNParser]
dsnThrowaway(c, dsn) ==
    [BlankConfig EXCEPT !.DSNString = dsn, !.DSNParser = c.DSNParser]

\* The segment after the callback: ParseDSN's error is dropped, and both fields
\* are read from DSNData["host"].
parseDsnFn(seg, c, dsn, parserRet, effect, my, sf) ==
    LET parsed == ParseResult(dsnThrowaway(c, dsn), parserRet, effect, my, sf).cfg
    IN [seg EXCEPT !.Host = MapGet(parsed.DSNData, "host"),
                   !.PortPathOrID = MapGet(parsed.DSNData, "host"),
                   !.wrote = @ \cup {"Host", "PortPathOrID"}]

\* The callback is called with the segment and the string the driver was opened
\* with; `inner` keeps the error of ParseDSN that the callback drops.
DsnObs(dsn, err, calls) == [CObs("parseDsnFn", <<>>, err, calls) EXCEPT !.arg = dsn]
ParseDsn(dsn, parserRet, effect, my, sf) ==
    /\ ParseEnv(ParseDispatch(dsnThrowaway(config, dsn)), parserRet, effect, my, sf)
    /\ segment' = parseDsnFn(segment, config, dsn, parserRet, effect, my, sf)
    /\ clast' = DsnObs(dsn,
                       ParseResult(dsnThrowaway(config, dsn), parserRet, effect, my, sf).err,
                       ParseCalls(dsnThrowaway(config, dsn)))
    /\ UNCHANGED <<config, origin, edits, query>>
    /\ UNCHANGED <<svars, dvars>>

\* The configurations the callback is made for, and the strings it is given.
DsnConfigs ==
    {[BlankConfig EXCEPT !.DriverType = t, !.DSNData = d, !.DSNParser = p,
                         !.DSNString = s] :
        t \in DriverTypes, d \in {NilMap, BaseData}, p \in BOOLEAN,
        s \in {<<>>, <<"h", "o", "s", "t", "=", "a">>}}
DsnStrings ==
    PqStrings \cup {s \in OracleStrings : Len(s) <= 2}
        \cup {s \in GenericStrings : Len(s) <= 12}

DsnInit ==
    /\ config \in DsnConfigs
    /\ origin = BlankConfig
    /\ edits = 0
    /\ clast = CObs("none", <<>>, <<>>, <<>>)
    /\ segment = BaseSegment
    /\ query = <<>>
    /\ cfg = [Connector |-> FALSE, Driver |-> FALSE, Ctx |-> FALSE,
              DatabaseName |-> EmptyName, DriverName |-> EmptyName,
              NewRelic |-> FALSE, Loc |-> FALSE, Params |-> FALSE, Cancel |-> FALSE]
    /\ handle = "none"
    /\ conn = "nil"
    /\ opened = 0
    /\ parentDone = FALSE
    /\ childDone = FALSE
    /\ watcher = "none"
    /\ txs = [owned |-> 0, adhoc |-> 0, orphan |-> 0]
    /\ dlast = DObs("none", Nil, Nil, Nil, FALSE, <<>>)
    /\ lastErr = Nil
    /\ binds = <<>>
    /\ closes = 0
    /\ result = "nil"
    /\ rows = NoRows
    /\ txn = "open"
    /\ stmt = "open"
    /\ nrtxn = "nil"
    /\ last = Obs("none", Nil, TRUE, Nil, <<>>, <<>>, "none")

DsnNext ==
    \E dsn \in DsnStrings, r \in ParserRets, e \in ParserEffects,
       my \in MysqlParses, sf \in SnowflakeParses :
        ParseDsn(dsn, r, e, my, sf)

SpecDsn == DsnInit /\ [][DsnNext]_vars

----------------------------------------------------------------------------
\* ---- Properties of the statement ----

IsPositional(a) == a[1] = ""
ExecOps == {"Exec", "Query", "QueryRow"}

\* C1: across any sequence of Bind, Exec, Query and QueryRow calls, Bind appends
\* one named argument and keeps the earlier ones (also those with the same key);
\* the list handed to the prepared statement is the accumulated binds, in
\* insertion order, followed by the call's positional arguments; Exec and Query
\* leave the bind list empty whether they succeeded or failed; QueryRow leaves
\* it as it was.
C1_BindsThenArgs ==
    [][ /\ (last'.op = "Bind" =>
              /\ Len(binds') = Len(binds) + 1
              /\ SubSeq(binds', 1, Len(binds)) = binds
              /\ ~IsPositional(binds'[Len(binds')]))
        /\ (last'.op \in ExecOps =>
              /\ Len(last'.handed) >= Len(binds)
              /\ SubSeq(last'.handed, 1, Len(binds)) = binds
              /\ \A i \in (Len(binds) + 1)..Len(last'.handed) :
                    IsPositional(last'.handed[i]))
        /\ (last'.op \in {"Exec", "Query"} => binds' = <<>>)
        /\ (last'.op = "QueryRow" => binds' = binds) ]_vars

\* A failed Exec that was handed two binds of the same key and then a positional
\* argument, and left the bind list empty.
C1_Witness ==
    /\ last.op = "Exec"
    /\ last.ret # Nil
    /\ Len(last.handed) = 3
    /\ last.handed[1][1] = last.handed[2][1]
    /\ ~IsPositional(last.handed[1])
    /\ IsPositional(last.handed[3])
    /\ binds = <<>>

\* C2: Commit returns the absent error in every state of the transaction and
\* whatever the underlying commit returned.
C2_CommitReturnsNil == last.op = "Commit" => last.ret = Nil

\* A Commit whose underlying commit failed on a transaction that was already
\* rolled back.
C2_Witness ==
    /\ last.op = "Commit"
    /\ last.inner = ErrTxDone
    /\ txn = "rolledback"
    /\ last.ret = Nil

\* C3: right after a failing Exec, Query, QueryRow, Scan, Next, MapNext, Commit,
\* Rollback or Close, the last error recorded on the statement is that
\* operation's error.
C3_EveryFailureRecorded ==
    /\ (last.op \in {"Exec", "Query", "Scan", "Rollback", "Close"} /\ last.ret # Nil
          => lastErr = last.ret)
    /\ (last.op \in {"Commit", "QueryRow"} /\ last.inner # Nil
          => lastErr = last.inner)
    /\ (last.op \in {"Next", "MapNext"} /\ ~last.ok =>
          /\ (~rows.exists => lastErr = ErrNoCursor)
          /\ (last.adv = "err" => lastErr = RowsErr(rows))
          /\ (last.adv = "row" => lastErr = last.inner))

\* C4: Close on a statement whose transaction Commit has ended still calls
\* Rollback, and the roll-back failure is part of the non-nil combined error
\* that Close returns and records as the last error.
C4_CloseAfterCommit ==
    [][ (last'.op = "Close" /\ txn \in {"committed", "commitFailed"}) =>
          /\ \E i \in 1..Len(last'.calls) : last'.calls[i] = "txn.Rollback"
          /\ last'.inner = ErrTxDone
          /\ last'.ret # Nil
          /\ \E i \in 1..(Len(last'.ret) - 1) :
                /\ last'.ret[i] = "error rolling back transaction"
                /\ <<last'.ret[i + 1]>> = ErrTxDone
          /\ lastErr' = last'.ret ]_vars

\* Prepare, Exec, Commit, Close: the transaction is committed, a result is
\* stored, and Close has just returned.
C4_Witness ==
    /\ last.op = "Close"
    /\ txn = "committed"
    /\ result = "res"
    /\ last.ret # Nil

\* C5: Next and MapNext return true only when there is a cursor, it advanced
\* to a row and the row was scanned without error; with no cursor they return
\* false, record the NoCursor error and call nothing on any cursor.
C5_NextTrueOnlyOnScannedRow ==
    [][ last'.op \in {"Next", "MapNext"} =>
          /\ (last'.ok =>
                /\ rows.exists
                /\ ~rows.closed
                /\ last'.adv = "row"
                /\ rows'.onRow
                /\ last'.inner = Nil
                /\ \E i \in 1..Len(last'.calls) : last'.calls[i] = "rows.Scan")
          /\ (~rows.exists =>
                /\ ~last'.ok
                /\ lastErr' = ErrNoCursor
                /\ last'.calls = <<>>
                /\ rows' = rows) ]_vars

\* MapNext has just returned true on a row.
C5_Witness == last.op = "MapNext" /\ last.ok /\ rows.onRow

\* C6: when Next or MapNext returns false because there is no cursor, because
\* advancing failed or because scanning the row failed, the last error is
\* non-nil right after; Err reports an error in the advancing case and none in
\* the other two.
NextFailed ==
    /\ last.op \in {"Next", "MapNext"}
    /\ ~last.ok
    /\ (~rows.exists \/ last.adv = "err" \/ (last.adv = "row" /\ last.inner # Nil))
C6_LastErrCoversNextFailures ==
    NextFailed =>
        /\ lastErr # Nil
        /\ (ErrValue(rows) # Nil <=> last.adv = "err")

\* Next advanced to a row whose scan failed: LastErr has the error, Err has none.
C6_Witness ==
    /\ NextFailed
    /\ last.op = "Next"
    /\ last.adv = "row"
    /\ last.inner = ErrConvert
    /\ ErrValue(rows) = Nil
    /\ lastErr = ErrConvert

----------------------------------------------------------------------------
\* ---- Properties of the connection handle ----

Times(call, calls) == Cardinality({i \in 1..Len(calls) : calls[i] = call})

\* C7: once New has returned a handle and the governing context (the caller's
\* or the derived one) is cancelled, the shutdown goroutine eventually calls
\* Close; it never calls it a second time, so a handle its holder never closes
\* is closed exactly once.
C7_CancelClosesOnce ==
    /\ ((handle = "live" /\ childDone) ~> (closes.watcher = 1))
    /\ [](closes.watcher <= 1)
    /\ [](closes.watcher = 1 => watcher = "done")

\* The caller's context was cancelled, the holder never called Close, and the
\* goroutine has closed the handle.
C7_Witness ==
    /\ handle = "live"
    /\ parentDone
    /\ closes = [user |-> 0, watcher |-> 1]
    /\ conn = "closed"

\* C8: New fails with the error of the first requirement that is violated, in
\* the order connector-or-driver, context, database name, driver name, whatever
\* later requirements are violated too, and fails so exactly when one is.
C8_NewValidationOrder ==
    [][ (dlast.op = "none" /\ dlast'.op = "New") =>
          LET noDriver == ~cfg.Connector /\ ~cfg.Driver
              noCtx == ~cfg.Ctx
              noDatabase == cfg.DatabaseName = EmptyName
              noName == cfg.DriverName = EmptyName
              missing == {ErrNeedConnector, ErrNeedCtx, ErrNeedDatabaseName,
                          ErrNeedDriverName}
          IN /\ (dlast'.ret \in missing <=> (noDriver \/ noCtx \/ noDatabase \/ noName))
             /\ (dlast'.ret \in missing => handle' = "none" /\ dlast'.calls = <<>>)
             /\ (noDriver => dlast'.ret = ErrNeedConnector)
             /\ (~noDriver /\ noCtx => dlast'.ret = ErrNeedCtx)
             /\ (~noDriver /\ ~noCtx /\ noDatabase => dlast'.ret = ErrNeedDatabaseName)
             /\ (~noDriver /\ ~noCtx /\ ~noDatabase /\ noName
                   => dlast'.ret = ErrNeedDriverName) ]_vars

\* New failed on the missing context of a configuration that also lacks both
\* names.
C8_Witness ==
    /\ dlast.op = "New"
    /\ dlast.ret = ErrNeedCtx
    /\ cfg.DatabaseName = EmptyName
    /\ cfg.DriverName = EmptyName
    /\ handle = "none"

\* C9: when Connect fails inside New (open or ping), New returns no handle and
\* the wrapped error, and no shutdown goroutine exists for the configuration.
C9_FailedConnectNoHandle ==
    (dlast.op = "New" /\ dlast.inner # Nil) =>
        /\ handle = "none"
        /\ ~dlast.stmt
        /\ dlast.ret = Wrap(dlast.inner, "connect failed")
        /\ watcher = "none"
        /\ closes.watcher = 0

\* New opened the connection, the ping failed, and the derived context was
\* cancelled afterwards.
C9_Witness ==
    /\ dlast.op = "New"
    /\ dlast.inner = ErrDriver
    /\ conn = "open"
    /\ childDone
    /\ handle = "none"

\* C10: PrepareContext calls Connect at most once: not at all when its Ping
\* succeeded, exactly once when it failed; when that Connect fails too it
\* returns no statement and an error combining both failures and begins no
\* transaction; when it succeeds the call goes on to begin a transaction.
C10_SingleReconnect ==
    [][ (dlast'.op = "PrepareContext" /\ UNCHANGED <<parentDone, childDone>>) =>
          LET k == Times("db.Connect", dlast'.calls)
          IN /\ k <= 1
             /\ (dlast'.ping = Nil => k = 0 /\ opened' = opened)
             /\ (dlast'.ping # Nil => k = 1 /\ opened' <= opened + 1)
             /\ Times("db.Ping", dlast'.calls) = 1
             /\ (dlast'.ping # Nil /\ dlast'.inner # Nil =>
                   /\ ~dlast'.stmt
                   /\ dlast'.ret = WrapE(Wrap(dlast'.ping, "ping failed"), dlast'.inner)
                   /\ Times("db.BeginTx", dlast'.calls) = 0
                   /\ txs' = txs)
             /\ (dlast'.ping # Nil /\ dlast'.inner = Nil =>
                   Times("db.BeginTx", dlast'.calls) = 1) ]_vars

\* PrepareContext has just failed on a ping and a reconnect that both failed.
C10_Witness ==
    /\ dlast.op = "PrepareContext"
    /\ dlast.ping # Nil
    /\ dlast.inner # Nil
    /\ ~dlast.stmt

\* C11: DB.Close on a handle that has no connection (Conn is nil) returns an
\* error to its caller: it neither panics nor returns the absent error.
C11_CloseNoConnReturnsError ==
    (dlast.op = "Close" /\ conn = "nil") =>
        /\ dlast.ret # Panic
        /\ dlast.ret # Nil
        /\ Times("panic", dlast.calls) = 0

\* C12: Connect closes the connection the handle already has before it opens
\* the new one, so at most one connection opened by the handle is open at any
\* time.
C12_AtMostOneOpen == handle = "live" => opened <= 1

----------------------------------------------------------------------------
\* ---- Properties of the configuration ----

\* C13: DSN() on a configuration whose DSNString is not empty returns that
\* string, calls neither DSNFn nor a generator and changes nothing; so a string
\* once produced is what every later DSN() returns, whatever the holder assigns
\* to DriverType, DSNData or Params in between.
C13_SetDSNIsKept ==
    [][ config.DSNString # <<>> =>
          /\ config'.DSNString = config.DSNString
          /\ (clast'.op = "DSN" =>
                /\ clast'.ret = config.DSNString
                /\ clast'.calls = <<>>
                /\ config' = config) ]_vars

\* DSNFn produced the string, the holder then changed the DriverType, and DSN()
\* was called again.
C13_Witness ==
    /\ clast.op = "DSN"
    /\ clast.calls = <<>>
    /\ clast.ret = <<"f", "n">>
    /\ edits = 1
    /\ config.DriverType = "oracle"

\* C14: with DSNString empty and DSNFn set, DSN() returns exactly what DSNFn
\* returned, the empty string included, for every DriverType, the four engines
\* included, and no built-in generator runs.
C14_DSNFnOverrides ==
    [][ (clast'.op = "DSN" /\ config.DSNString = <<>> /\ config.DSNFn) =>
          /\ clast'.calls = <<"generateDSN", "DSNFn">>
          /\ clast'.ret = clast'.inner
          /\ config'.DSNString = clast'.inner ]_vars

\* DSNFn returned the empty string on a mysql configuration.
C14_Witness ==
    /\ clast.op = "DSN"
    /\ clast.calls = <<"generateDSN", "DSNFn">>
    /\ clast.ret = <<>>
    /\ config.DriverType = "mysql"
    /\ config.DSNString = <<>>

\* key=value for each key in the order given, joined by sep.
RECURSIVE JoinParams(_, _, _)
JoinParams(m, order, sep) ==
    IF order = <<>> THEN <<>>
    ELSE Head(order) \o <<"=">> \o MapGet(m, Head(order))
         \o (IF Tail(order) = <<>> THEN <<>> ELSE sep)
         \o JoinParams(m, Tail(order), sep)

\* The documented DSN of each engine for DSNData d and Params p, the params in
\* the order o.
DocumentedDSN(t, d, p, o) ==
    CASE t = "mysql" ->
           MapGet(d, "user") \o <<":">> \o MapGet(d, "pass") \o <<"@", "t", "c", "p", "(">>
           \o MapGet(d, "host") \o <<":">>
           \o (IF MapHas(d, "port") THEN MapGet(d, "port") ELSE <<"3", "3", "0", "6">>)
           \o <<")", "/">> \o MapGet(d, "name")
           \o (IF o = <<>> THEN <<>> ELSE <<"?">> \o JoinParams(p, o, <<"&">>))
      [] t = "oracle" ->
           MapGet(d, "user") \o <<"/">> \o MapGet(d, "pass") \o <<"@">> \o MapGet(d, "host")
      [] t = "postgres" ->
           <<"u", "s", "e", "r", "=">> \o MapGet(d, "user")
           \o <<" ", "p", "a", "s", "s", "w", "o", "r", "d", "=">> \o MapGet(d, "pass")
           \o <<" ", "d", "b", "n", "a", "m", "e", "=">> \o MapGet(d, "name")
           \o <<" ", "h", "o", "s", "t", "=">> \o MapGet(d, "host")
           \o (IF o = <<>> THEN <<>> ELSE <<" ">> \o JoinParams(p, o, <<" ">>))
      [] t = "snowflake" ->
           MapGet(d, "user") \o <<":">> \o MapGet(d, "pass") \o <<"@">>
           \o MapGet(d, "account") \o <<"/">> \o MapGet(d, "db") \o <<"/">>
           \o MapGet(d, "schema")
           \o <<"?", "w", "a", "r", "e", "h", "o", "u", "s", "e", "=">>
           \o MapGet(d, "warehouse")
           \o <<"&", "r", "o", "l", "e", "=">> \o MapGet(d, "role")
           \o (IF o = <<>> THEN <<>> ELSE <<"&">> \o JoinParams(p, o, <<"&">>))
      [] OTHER -> <<>>

\* C15: with DSNString empty and no DSNFn, DSN() returns the documented format
\* of the DriverType (the params in some order), with the port 3306 when mysql
\* is given none, and the empty string for every other DriverType.
C15_DocumentedFormat ==
    [][ (clast'.op = "DSN" /\ config.DSNString = <<>> /\ ~config.DSNFn) =>
          \E o \in RangeOrders(config.Params) :
              clast'.ret = DocumentedDSN(config.DriverType, config.DSNData,
                                         config.Params, o) ]_vars

\* C16: ParseDSN on a configuration whose DSNString is empty returns
\* ErrDSNStringEmpty whatever the other fields hold: it calls neither DSNParser
\* nor a parser of an engine, generates no DSN, and only allocates the maps.
C16_EmptyStringFails ==
    [][ (clast'.op = "ParseDSN" /\ config.DSNString = <<>>) =>
          /\ clast'.ret = ErrDSNStringEmpty
          /\ clast'.calls = <<>>
          /\ config' = ParseAllocates(config) ]_vars

\* ParseDSN returned on an empty DSNString with DSNParser, DSNFn, DSNData and an
\* engine's DriverType all set.
C16_Witness ==
    /\ clast.op = "ParseDSN"
    /\ clast.ret = ErrDSNStringEmpty
    /\ config.DSNString = <<>>
    /\ config.DSNParser
    /\ config.DSNFn
    /\ config.DriverType = "mysql"
    /\ MapHas(config.DSNData, "user")

\* C17: after any call to ParseDSN returns, with or without an error, for every
\* DriverType and with or without a custom DSNParser, DSNData and Params are
\* both allocated maps.
C17_MapsAllocated ==
    clast.op = "ParseDSN" => ~config.DSNData.isNil /\ ~config.Params.isNil

\* Whether the params of the DSN string s hold a loc entry (config.go:153).
SuppliesLoc(s) ==
    /\ FindStringSubmatch(s).matched
    /\ \E n \in DOMAIN Split(FindStringSubmatch(s).params, "&") :
          /\ Len(SplitN2(Split(FindStringSubmatch(s).params, "&")[n], "=")) = 2
          /\ SplitN2(Split(FindStringSubmatch(s).params, "&")[n], "=")[1] = KeyLoc

\* C18: whenever ParseDSN returns without error, Loc is set (UTC when the DSN
\* supplied none and none was set before), for every DriverType and whether or
\* not a custom DSNParser is set.
C18_LocSetOnSuccess ==
    [][ (clast'.op = "ParseDSN" /\ clast'.ret = Nil) =>
          /\ config'.Loc # "nil"
          /\ (config.Loc = "nil" /\ ~SuppliesLoc(config.DSNString) =>
                config'.Loc = "UTC") ]_vars

\* C18 as it holds: whenever ParseDSN returns without error from its generic
\* parse (the DriverType is none of the four engines and no custom DSNParser
\* is set), Loc is set (UTC when the DSN supplied none and none was set before).
C18_LocSetByGenericParse ==
    [][ (/\ clast'.op = "ParseDSN"
         /\ clast'.ret = Nil
         /\ config.DriverType \notin Engines
         /\ ~config.DSNParser) =>
          /\ config'.Loc # "nil"
          /\ (config.Loc = "nil" /\ ~SuppliesLoc(config.DSNString) =>
                config'.Loc = "UTC") ]_vars

\* The generic parse matched a string with a parameter other than loc and the
\* default location was stored.
C18_Witness ==
    /\ clast.op = "ParseDSN"
    /\ clast.ret = Nil
    /\ clast.calls = <<"dsnPattern.FindStringSubmatch">>
    /\ config.DriverType = "sqlite"
    /\ config.DSNString = <<"u", "@", "/", "n", "?", "k", "=", "v">>
    /\ MapGet(config.Params, <<"k">>) = <<"v">>
    /\ config.Loc = "UTC"

\* C19: when DSNString is not empty and DSNParser is set, ParseDSN calls
\* DSNParser exactly once and nothing else, returns exactly what it returned,
\* and leaves the configuration as DSNParser left it, for every DriverType.
C19_DelegatesToParser ==
    [][ (clast'.op = "ParseDSN" /\ config.DSNString # <<>> /\ config.DSNParser) =>
          /\ clast'.calls = <<"DSNParser">>
          /\ clast'.ret = clast'.inner
          /\ \E e \in ParserEffects :
                config' = ParserEffect(ParseAllocates(config), e) ]_vars

\* A custom parser's error came back from ParseDSN on a postgres configuration.
C19_Witness ==
    /\ clast.op = "ParseDSN"
    /\ clast.calls = <<"DSNParser">>
    /\ clast.ret = ErrCustomParser
    /\ config.DSNParser
    /\ config.DriverType = "postgres"
    /\ config.DSNString = <<"a", "=", "a">>

\* The fresh configuration was made for the string oracleGenerateDSN builds from
\* the DSNData of origin, and ParseDSN has returned on it.
OracleRoundDone ==
    /\ clast.op = "ParseDSN"
    /\ origin.DriverType = "oracle"
    /\ origin.DSNString = oracleGenerateDSN(origin).DSNString
    /\ config.DSNString = origin.DSNString
OracleReproduced ==
    /\ clast.ret = Nil
    /\ \A k \in {"user", "pass", "host"} :
          MapHas(config.DSNData, k) /\ MapGet(config.DSNData, k) = MapGet(origin.DSNData, k)
    /\ MapLen(config.Params) = 0

\* C20: for DriverType oracle, generating the DSN from DSNData {user, pass,
\* host} and parsing that string with ParseDSN into a fresh configuration
\* reproduces exactly the same user, pass and host and leaves Params empty.
C20_OracleRoundTrip == OracleRoundDone => OracleReproduced

\* C20 as it holds: the same, for a user and a pass that contain neither "/" nor
\* "@" and a host that contains no "@".
C20_OracleRoundTripOfPlainValues ==
    (/\ OracleRoundDone
     /\ \A k \in {"user", "pass"} :
           ~Contains(MapGet(origin.DSNData, k), "/") /\ ~Contains(MapGet(origin.DSNData, k), "@")
     /\ ~Contains(MapGet(origin.DSNData, "host"), "@")) => OracleReproduced

\* The round trip of user "a", no pass and the host "/".
C20_Witness ==
    /\ OracleRoundDone
    /\ OracleReproduced
    /\ MapGet(origin.DSNData, "user") = <<"a">>
    /\ MapGet(origin.DSNData, "pass") = <<>>
    /\ MapGet(config.DSNData, "host") = <<"/">>
    /\ config.DSNString = <<"a", "/", "@", "/">>

\* The fresh configuration was made for a string pqGenerateDSN builds from the
\* DSNData and Params of origin, and ParseDSN has returned on it.
PqRoundDone ==
    /\ clast.op = "ParseDSN"
    /\ origin.DriverType = "postgres"
    /\ \E o \in RangeOrders(origin.Params) :
          origin.DSNString = pqGenerateDSN(origin, o).DSNString
    /\ config.DSNString = origin.DSNString
PqReproduced ==
    /\ clast.ret = Nil
    /\ \A k \in {"user", "pass", "name", "host"} :
          MapHas(config.DSNData, k) /\ MapGet(config.DSNData, k) = MapGet(origin.DSNData, k)
    /\ config.Params.kv = origin.Params.kv
\* A value the tokenizer reads back as written when it is not quoted.
PqPlainValue(v) ==
    /\ v # <<>>
    /\ \A i \in DOMAIN v : v[i] \notin {" ", "'", "\\"}
PqPlainKey(k) ==
    /\ k # <<>>
    /\ \A i \in DOMAIN k : k[i] \notin {" ", "="}
    /\ k \notin {PqHost, PqDbname, PqPassword, PqUser}

\* C21: for DriverType postgres, generating the DSN from DSNData {user, pass,
\* name, host} and Params and parsing that string with ParseDSN into a fresh
\* configuration reproduces exactly the same DSNData values and Params entries.
C21_PostgresRoundTrip == PqRoundDone => PqReproduced

\* C21 as it holds: the same, when every value is non-empty and holds no
\* whitespace, single quote or backslash, and every key of Params is non-empty,
\* holds no whitespace or "=" and is none of user, password, dbname and host.
C21_PostgresRoundTripOfPlainValues ==
    (/\ PqRoundDone
     /\ \A k \in {"user", "pass", "name", "host"} : PqPlainValue(MapGet(origin.DSNData, k))
     /\ \A k \in DOMAIN origin.Params.kv :
           PqPlainKey(k) /\ PqPlainValue(origin.Params.kv[k])) => PqReproduced

\* The round trip of four plain values and the parameters k=v and j=w.
C21_Witness ==
    /\ PqRoundDone
    /\ PqReproduced
    /\ MapGet(config.DSNData, "user") = <<"a">>
    /\ MapGet(config.DSNData, "host") = <<"a">>
    /\ MapGet(config.Params, <<"j">>) = <<"w">>
    /\ MapGet(config.Params, <<"k">>) = <<"v">>

\* The string holds a "/" with no "/" and no "@" before it, and an "@".
SlashBeforeAt(s) ==
    /\ \E i \in DOMAIN s : s[i] = "/" /\ \A k \in 1..(i - 1) : s[k] \notin {"/", "@"}
    /\ \E j \in DOMAIN s : s[j] = "@"

PqGrammarStep(q, ch) ==
    CASE q = "start" -> IF ch = " " THEN "start" ELSE IF ch = "=" THEN "afterEq" ELSE "key"
      [] q = "key" -> IF ch = " " THEN "afterKey" ELSE IF ch = "=" THEN "afterEq" ELSE "key"
      [] q = "afterKey" ->
            IF ch = " " THEN "afterKey" ELSE IF ch = "=" THEN "afterEq" ELSE "noEq"
      [] q = "afterEq" ->
            IF ch = " " THEN "afterEq" ELSE IF ch = "'" THEN "quoted"
            ELSE IF ch = "\\" THEN "bareEsc" ELSE "bare"
      [] q = "bare" -> IF ch = " " THEN "start" ELSE IF ch = "\\" THEN "bareEsc" ELSE "bare"
      [] q = "bareEsc" -> "bare"
      [] q = "quoted" -> IF ch = "'" THEN "start" ELSE IF ch = "\\" THEN "quotedEsc" ELSE "quoted"
      [] q = "quotedEsc" -> "quoted"
      [] OTHER -> "noEq"
RECURSIVE PqGrammarEnd(_, _)
PqGrammarEnd(s, q) == IF s = <<>> THEN q ELSE PqGrammarEnd(Tail(s), PqGrammarStep(q, Head(s)))
\* The error the three cases of the claim name for where the input ends.
PqGrammarError(q) ==
    CASE q \in {"key", "afterKey", "noEq"} -> ErrPqMissingEqual
      [] q = "bareEsc" -> ErrPqBackslash
      [] q \in {"quoted", "quotedEsc"} -> ErrPqUnterminated
      [] OTHER -> Nil
PqAgrees(r, e) == r.err = e /\ (e # Nil => r.values = EmptyMap) /\ ~r.values.isNil

\* C23: pqParseDSN returns an error, with an empty mapping, exactly when a key
\* is not followed (after optional whitespace) by "=", when an unquoted value
\* ends with a backslash that nothing follows, or when a quoted value has no
\* closing unescaped quote; on every other input it returns a mapping and no
\* error.  postgresParseDSN returns the same error.
C23_PqErrorsExactly ==
    (clast.op = "ParseDSN" /\ config.DriverType = "postgres" /\ config.DSNString # <<>>) =>
        /\ PqAgrees(pqParseDSN(config.DSNString),
                    PqGrammarError(PqGrammarEnd(config.DSNString, "start")))
        /\ clast.ret = PqGrammarError(PqGrammarEnd(config.DSNString, "start"))

\* The tokenizer refused an unquoted value that ends with a backslash.
C23_Witness ==
    /\ clast.op = "ParseDSN"
    /\ clast.ret = ErrPqBackslash
    /\ clast.calls = <<"postgresParseDSN", "pqParseDSN">>
    /\ config.DSNString = <<"k", "=", "k", "\\">>

\* ---- Properties of the query-parsing callback ----
\* The verbs the callback recognises, and whether the text s starts with the
\* word v: v, and then no further word character.
RecognizedVerbs ==
    {<<"s", "e", "l", "e", "c", "t">>, <<"d", "e", "l", "e", "t", "e">>,
     <<"i", "n", "s", "e", "r", "t">>, <<"u", "p", "d", "a", "t", "e">>,
     <<"c", "a", "l", "l">>, <<"c", "r", "e", "a", "t", "e">>, <<"d", "r", "o", "p">>,
     <<"s", "h", "o", "w">>, <<"s", "e", "t">>, <<"e", "x", "e", "c">>,
     <<"e", "x", "e", "c", "u", "t", "e">>, <<"a", "l", "t", "e", "r">>,
     <<"c", "o", "m", "m", "i", "t">>, <<"r", "o", "l", "l", "b", "a", "c", "k">>}
StartsWithWord(s, v) ==
    /\ HasAt(s, 1, v)
    /\ Len(s) > Len(v) => s[Len(v) + 1] \notin WordChars
VerbsIn(s) == {v \in RecognizedVerbs : StartsWithWord(s, v)}
VerbsOf(q) == VerbsIn(ToLower(queryStripped(q)))
\* What the callback may do to the segment old, giving new, when the first word
\* of the query is one of the verbs V (none when V is empty).
OperationWritten(old, new, V) ==
    /\ ("Operation" \in new.wrote) <=> (V # {})
    /\ V # {} => new.Operation \in V
    /\ V = {} =>
           /\ "Collection" \notin new.wrote
           /\ new.Operation = old.Operation
           /\ new.Collection = old.Collection
    /\ "Collection" \in new.wrote =>
           new.Operation \in
               {<<"s", "e", "l", "e", "c", "t">>, <<"d", "e", "l", "e", "t", "e">>,
                <<"i", "n", "s", "e", "r", "t">>, <<"u", "p", "d", "a", "t", "e">>}

\* C24: the query-parsing callback writes the segment's operation exactly when
\* the lower-cased first word of the comment-stripped query is one of the 14
\* recognised verbs, and then writes that verb; for any other first word it
\* writes neither the operation nor the collection; it writes the collection
\* only for select, delete, insert and update; and it leaves the query text
\* as it was.
C24_OperationOfFirstWord ==
    [][clast'.op = "ParseQuery" =>
         /\ query' = query
         /\ OperationWritten(segment, segment', VerbsOf(query))]_vars
C24_Witness ==
    /\ clast.op = "ParseQuery"
    /\ query = <<"/", "*", "c", "*", "/", "I", "n", "s", "e", "r", "t", " ", "i", "n", "t", "o", " ", "t">>
    /\ segment.Operation = <<"i", "n", "s", "e", "r", "t">>
    /\ segment.Collection = <<"t">>
    /\ segment.wrote = {"DatabaseName", "Host", "ParameterizedQuery", "Operation", "Collection"}

\* ---- Properties of Statement.Close ----
\* The message Close wraps the failure of each cleanup call in.
CloseMessage(call) ==
    CASE call = "rows.Close" -> "error closing rows"
      [] call = "txn.Rollback" -> "error rolling back transaction"
      [] call = "stmt.Close" -> "error closing statement"
\* Whether the error ret carries the failure of the cleanup step under its
\* message.
CarriesStep(ret, step) ==
    \E i \in 1..Len(ret) : HasAt(ret, i, <<CloseMessage(step[1])>> \o step[2])
StepNames(steps) == [i \in DOMAIN steps |-> steps[i][1]]
FailedSteps(steps) == {i \in DOMAIN steps : steps[i][2] # Nil}
CloseOutcome(hadRows, before, after, obs) ==
    /\ StepNames(obs.steps) =
          (IF hadRows THEN <<"rows.Close">> ELSE <<>>) \o <<"txn.Rollback", "stmt.Close">>
    /\ (obs.ret = Nil) <=> (FailedSteps(obs.steps) = {})
    /\ FailedSteps(obs.steps) = {} => after = before
    /\ FailedSteps(obs.steps) # {} =>
          /\ after = obs.ret
          /\ \A i \in FailedSteps(obs.steps) : CarriesStep(obs.ret, obs.steps[i])

\* C25: Close attempts the cursor close (only when there is a cursor), the
\* rollback and the statement close, in this order and whatever the earlier
\* ones returned; it returns nil exactly when none of them failed, leaving the
\* last error as it was; otherwise it returns one error that carries every
\* failure, and the last error is that error.
C25_CloseAttemptsAll ==
    [][last'.op = "Close" => CloseOutcome(rows.exists, lastErr, lastErr', last')]_vars
\* Close has just returned after all three of its calls failed.
C25_Witness ==
    /\ last.op = "Close"
    /\ Len(last.steps) = 3
    /\ FailedSteps(last.steps) = {1, 2, 3}
    /\ lastErr = last.ret

\* ---- Properties of DB.Close ----
\* C26: Close calls Ping, discarding its result, then the cancellation function
\* stored in the configuration, then the close of the connection, and returns
\* exactly what that close returned; a Ping that fails prevents neither the
\* cancellation nor the close.
C26_CloseOrder ==
    [][dlast'.op = "Close" =>
         /\ dlast'.calls = <<"db.Ping", "cfg.Cancel", "conn.Close">>
         /\ dlast'.ret = dlast'.inner
         /\ dlast'.ret # Panic
         /\ childDone'
         /\ conn' = "closed"]_vars
\* Close has just returned the error of the connection's close after its Ping
\* failed.
C26_Witness ==
    /\ dlast.op = "Close"
    /\ dlast.ping # Nil
    /\ dlast.ret = ErrDriver
    /\ childDone
    /\ conn = "closed"

\* ---- Properties of DB.Query ----
\* C27: a Query or QueryContext that succeeds begins exactly one transaction
\* and returns the cursor without committing or rolling the transaction back;
\* the transaction is held by nobody, and no operation of the handle ever ends
\* a transaction begun this way, so each such call leaves one more of them.
C27_QueryLeavesTransaction ==
    [][/\ txs'.adhoc >= txs.adhoc
       /\ (dlast'.op = "Query" /\ dlast'.ret = Nil /\ <<dlast, txs>>' # <<dlast, txs>>) =>
             /\ Times("db.BeginTx", dlast'.calls) = 1
             /\ Times("tx.Commit", dlast'.calls) = 0
             /\ Times("tx.Rollback", dlast'.calls) = 0
             /\ dlast'.stmt
             /\ txs'.adhoc = txs.adhoc + 1
             /\ txs'.owned = txs.owned]_vars
\* The second successful Query has just returned: two transactions are left.
C27_Witness ==
    /\ dlast.op = "Query"
    /\ dlast.ret = Nil
    /\ dlast.stmt
    /\ txs.adhoc = MaxTx

\* ---- Properties of the generic parse's parameters ----
\* The key=value entries of the parameters of the DSN s, in order.
ParamPairs(s) ==
    LET entries == Split(FindStringSubmatch(s).params, "&")
    IN [n \in DOMAIN entries |-> SplitN2(entries[n], "=")]
\* A tls value that names no TLS configuration, and a loc value that names no
\* time zone.
BadTLSValue(v) ==
    /\ v \notin BoolTrue \cup BoolFalse
    /\ ToLower(v) # SkipVerify
    /\ v \notin tlsConfigRegister
HasBadTLS(pairs) ==
    \E n \in DOMAIN pairs :
        Len(pairs[n]) = 2 /\ pairs[n][1] = KeyTLS /\ BadTLSValue(pairs[n][2])
HasBadLoc(pairs) ==
    \E n \in DOMAIN pairs :
        Len(pairs[n]) = 2 /\ pairs[n][1] = KeyLoc /\ LoadLocation(pairs[n][2]).err # Nil
PlainStored(pairs, c) ==
    \A n \in DOMAIN pairs :
        (Len(pairs[n]) = 2 /\ pairs[n][1] \notin {KeyLoc, KeyTLS}) => MapHas(c.Params, pairs[n][1])
BadTLSReported(c, pairs, ret, after) ==
    (HasBadTLS(pairs) /\ ~HasBadLoc(pairs)) =>
        (ret = ErrInvalidTLSConfig /\ PlainStored(pairs, after))

\* C28: in the generic parse (the DriverType is none of the four engines and
\* no DSNParser is set), when the parameters hold a tls entry whose value is
\* no boolean, not skip-verify and no registered name, and no loc entry fails
\* to resolve, ParseDSN returns ErrInvalidTLSConfig, wherever the tls entry
\* stands and whatever follows it, and the other parameters are still stored.
C28_BadTLSReported ==
    [][(/\ clast'.op = "ParseDSN"
        /\ config.DriverType \notin Engines
        /\ ~config.DSNParser
        /\ config.DSNString # <<>>
        /\ FindStringSubmatch(config.DSNString).matched) =>
          BadTLSReported(config, ParamPairs(config.DSNString), clast'.ret, config')]_vars

\* ---- Properties of the values pqParseDSN returns ----
\* The key=value pairs of a connection string, read character by character
\* along the grammar: st holds the grammar state before ch, the key and the
\* value being read, and the pairs completed so far.
PqPairsEmit(st, q) == [q |-> q, key |-> <<>>, val |-> <<>>, pairs |-> Append(st.pairs, <<st.key, st.val>>)]
PqPairsStep(st, ch, q) ==
    CASE st.q \in {"start", "key"} /\ q = "key" -> [st EXCEPT !.q = q, !.key = @ \o <<ch>>]
      [] st.q \in {"afterEq", "bare"} /\ q = "bare" -> [st EXCEPT !.q = q, !.val = @ \o <<ch>>]
      [] st.q \in {"bareEsc", "quotedEsc"} -> [st EXCEPT !.q = q, !.val = @ \o <<ch>>]
      [] st.q = "quoted" /\ q = "quoted" -> [st EXCEPT !.q = q, !.val = @ \o <<ch>>]
      [] st.q \in {"bare", "quoted"} /\ q = "start" -> PqPairsEmit(st, q)
      [] OTHER -> [st EXCEPT !.q = q]
RECURSIVE PqPairsRead(_, _)
PqPairsRead(s, st) ==
    IF s = <<>> THEN st ELSE PqPairsRead(Tail(s), PqPairsStep(st, Head(s), PqGrammarStep(st.q, Head(s))))
PqPairsEnd(st) == IF st.q \in {"bare", "afterEq"} THEN PqPairsEmit(st, "start") ELSE st
PqPairs(s) ==
    PqPairsEnd(PqPairsRead(s, [q |-> "start", key |-> <<>>, val |-> <<>>, pairs |-> <<>>])).pairs
\* The last of the pairs with the key of the n-th.
IsLastOf(pairs, n) == \A k \in DOMAIN pairs : k > n => pairs[k][1] # pairs[n][1]
LastWins(pairs, values) ==
    /\ DOMAIN values.kv = {pairs[n][1] : n \in DOMAIN pairs}
    /\ \A n \in DOMAIN pairs : IsLastOf(pairs, n) => values.kv[pairs[n][1]] = pairs[n][2]
EndsAfterEquals(s) == PqGrammarEnd(s, "start") = "afterEq"
PqValuesAgree(s, r, pairs) ==
    PqGrammarError(PqGrammarEnd(s, "start")) = Nil =>
        /\ r.err = Nil
        /\ LastWins(pairs, r.values)
        /\ EndsAfterEquals(s) => pairs[Len(pairs)][2] = <<>>

\* C29: pqParseDSN maps a key that occurs more than once to the value of its
\* last occurrence; and when the input ends right after the "=" of a key, only
\* whitespace following, it maps that key to the empty string and stops
\* without an error.
C29_LastOccurrenceWins ==
    (clast.op = "ParseDSN" /\ config.DriverType = "postgres" /\ config.DSNString # <<>>) =>
        PqValuesAgree(config.DSNString, pqParseDSN(config.DSNString), PqPairs(config.DSNString))
\* The tokenizer read k=v j=w k= : k is given twice and the input ends after
\* the second "=".
C29_Witness ==
    /\ clast.op = "ParseDSN"
    /\ clast.ret = Nil
    /\ config.DSNString = <<"k", "=", "v", " ", "j", "=", "w", " ", "k", "=">>
    /\ pqParseDSN(config.DSNString).values.kv = (<<"k">> :> <<>>) @@ (<<"j">> :> <<"w">>)
    /\ PqPairs(config.DSNString) = << <<<<"k">>, <<"v">>>>, <<<<"j">>, <<"w">>>>, <<<<"k">>, <<>>>> >>

\* ---- Properties of the statement's last error ----
\* C30: the last error of a statement is sticky: once an operation has recorded
\* an error, no later operation, successful or not, sets it back to nil; it
\* changes only to the error of an operation that failed.
C30_LastErrSticky ==
    [][lastErr # Nil =>
         /\ lastErr' # Nil
         /\ lastErr' # lastErr => (last'.ret # Nil \/ last'.inner # Nil \/ ~last'.ok)]_vars
\* A row was scanned without error while an earlier error is still recorded.
C30_Witness ==
    /\ last.op \in {"Next", "MapNext", "Scan", "MapScan"}
    /\ last.ok
    /\ last.ret = Nil
    /\ last.inner = Nil
    /\ lastErr # Nil

\* ---- Properties of the statement's transaction ----
\* C31: the transaction of a statement becomes committed only in a Commit
\* (Close, Rollback, Exec, Query and Next never commit it), and after Close has
\* returned it is no longer open: it is committed, by an earlier Commit, or
\* rolled back.
C31_EndedByClose ==
    [][/\ (txn' = "committed" /\ txn # "committed") => last'.op = "Commit"
       /\ last'.op = "Close" => txn' \in {"committed", "rolledback"}]_vars

\* C31 as it holds: the transaction becomes committed only in a Commit, and
\* after Close has returned it is no longer open: an earlier Commit or Rollback
\* reached it and Close left it as it was, its own Rollback returning the
\* transaction-done error; or Close's Rollback reached it, and rolled it back
\* unless the driver failed the Rollback.
C31_DoneAfterClose ==
    [][/\ (txn' = "committed" /\ txn # "committed") => last'.op = "Commit"
       /\ last'.op = "Close" =>
            /\ TxDone(txn')
            /\ Times("txn.Rollback", last'.calls) = 1
            /\ Times("txn.Commit", last'.calls) = 0
            /\ TxDone(txn) => (txn' = txn /\ last'.inner = ErrTxDone)
            /\ (~TxDone(txn) /\ last'.inner = Nil) => txn' = "rolledback"
            /\ (~TxDone(txn) /\ last'.inner # Nil) => txn' = "rollbackFailed"]_vars
\* Close has just rolled back a transaction that Exec had used and nothing had
\* ended.
C31_Witness ==
    /\ last.op = "Close"
    /\ last.inner = Nil
    /\ last.ret = Nil
    /\ txn = "rolledback"
    /\ result = "res"

\* ---- Properties of DB.PrepareContext ----
\* C32: a PrepareContext that returns an error leaves no transaction open that
\* it began itself: when the transaction was begun and preparing the SQL text
\* failed, the transaction is rolled back before the error is returned.
C32_FailedPrepareLeavesNoTransaction ==
    [][(/\ dlast'.op = "PrepareContext"
        /\ dlast'.ret # Nil
        /\ <<dlast, txs>>' # <<dlast, txs>>) =>
          /\ txs' = txs
          /\ Times("txn.PrepareContext", dlast'.calls) = 1 =>
                Times("txn.Rollback", dlast'.calls) = 1]_vars

ScannerAdvances(s, i) ==
    /\ pqNext(s, i).i = (IF pqNext(s, i).ok THEN i + 1 ELSE i)
    /\ pqNext(s, i).ok <=> i < Len(s)
    /\ pqNext(s, i).i <= Len(s)
    /\ pqSkipSpaces(s, i).i >= i
    /\ pqSkipSpaces(s, i).i <= Len(s)
    /\ pqSkipSpaces(s, i).ok => pqSkipSpaces(s, i).i > i
\* The indices of a run of the outer loop: each iteration that loops again
\* begins further on than the one before, and no index is past the input.
LoopAdvances(s, at) ==
    /\ Len(at) >= 2
    /\ at[1] = 0
    /\ \A n \in 1..(Len(at) - 2) : at[n] < at[n + 1]
    /\ at[Len(at) - 1] <= at[Len(at)]
    /\ \A n \in DOMAIN at : at[n] <= Len(s)

C35_HostNeverPopulated ==
    [][clast'.op = "parseDsnFn" /\ clast' # clast =>
        /\ config' = config
        /\ segment'.Host = segment'.PortPathOrID
        /\ {"Host", "PortPathOrID"} \subseteq segment'.wrote
        /\ ~config.DSNParser =>
            /\ clast'.calls = IF clast'.arg = <<>> THEN <<>>
                              ELSE <<"dsnPattern.FindStringSubmatch">>
            /\ segment'.Host = <<>>
            /\ segment'.PortPathOrID = <<>>]_vars
\* A caller of type postgres whose DSNData has a host, and a string with a host
\* in the form of that engine: the segment's host is assigned empty.
C35_Witness ==
    /\ clast.op = "parseDsnFn"
    /\ clast.arg = <<"h", "o", "s", "t", "=", "a", " ", "k", "=", "'", "v", "'">>
    /\ config.DriverType = "postgres"
    /\ ~config.DSNParser
    /\ MapGet(config.DSNData, "host") # <<>>
    /\ segment.Host = <<>>
    /\ "Host" \in segment.wrote

====
